---------------------------- MODULE Spec2Model ----------------------------
(***************************************************************************)
(* Verification model of the collision / intersection core of flare.rs     *)
(* (d3-core): the CollisionMap dispatch table (game/physics/collide.rs),   *)
(* the broad-phase room search IntersectionFinder::quick_dist_facelist and *)
(* the terrain window walk process_cells (game/physics/intersection.rs).   *)
(*                                                                         *)
(* Rust Vec / slice values are sequences read with the 0-based index of    *)
(* the source (At, SetAt); Option<T> is <<>> for None and <<x>> for        *)
(* Some(x); an Rc<RefCell<Room>> is the id of the room it points to.       *)
(***************************************************************************)
EXTENDS Integers, Sequences, FiniteSets, TLC

VARIABLES
    \* ---- CollisionMap (collide.rs) ----
    result_map,        \* CollisionMap::result_map
    ray_result,        \* CollisionMap::ray_result
    map_phase,         \* "zeroed": all-Nothing table; "calls": enable/disable calls applied; "default": built by default()
    map_calls,         \* number of enable/disable calls applied so far
    diag_directional,  \* a directional enable_* was called with type1 == type2
    \* ---- the level and one quick_dist_facelist call (intersection.rs) ----
    rooms,             \* the rooms of the level, by room id
    q_status,          \* "off", "idle", "loop" (at the while of line 370), "panicked"
    initial_room,      \* argument initial_room (a room id)
    room_list,         \* argument room_list (room ids)
    position,          \* argument position
    rad,               \* argument rad
    quick_face_list,   \* the caller's output slice (<<>> when none is supplied)
    qfl,               \* local qfl: TRUE while it is Some(list)
    next_rooms,        \* local next_rooms
    head,              \* local head
    rooms_visited,     \* local rooms_visited
    num_faces,         \* local num_faces, the value returned
    \* ---- what the call in progress has done so far (observation only) ----
    list_supplied,     \* the call was given Some(list)
    processed,         \* ids of the rooms whose faces were tested, in order
    touched_by_call,   \* <<room id, face index>> of every face the call set TOUCHED on
    touch_count,       \* number of faces_touched.push executed
    appended,          \* <<face index, room id>> of every passing face written to the list, in order
    \* ---- one process_cells call (intersection.rs) ----
    overflow_checks,   \* the build panics on integer overflow (debug) or wraps (release)
    c_status,          \* "off", "idle", "visit" (at the visitor call of line 1479), "done", "panicked"
    initial_cell,      \* argument initial_cell
    cell_rad,          \* argument rad
    stop_at,           \* the visitor: answers false from this call on (0: never)
    check_x,           \* local check_x (check_y is the same value)
    x_start,           \* local x_start
    x_end,             \* local x_end
    y_start,           \* local y_start
    y_end,             \* local y_end
    current_node,      \* local current_node
    next_y_delta,      \* local next_y_delta
    loop_y,            \* loop variable _y
    loop_x,            \* loop variable _x
    visits,            \* number of visitor calls made so far
    \* ---- one call of a narrow-phase function (intersection.rs) ----
    n_call,            \* "off", "none", or the name of the function called last
    n_args,            \* its arguments
    n_out,             \* what it returned and wrote through its &mut parameters
    \* ---- one doorway of context.doorways and its door (door.rs, core.rs) ----
    doorway_state,     \* Doorway::state
    doorway_flags,     \* Doorway::flags
    is_active,         \* Doorway::is_active
    doorway_position,  \* Doorway::position
    dest_pos,          \* Doorway::dest_pos
    door,              \* Doorway::assigned_door: None, or Some of its DoorInfo
    assigned_room,     \* Doorway::assigned_room: None, or Some room
    door_obj_linked,   \* the door object has a link_prev_obj or a link_next_obj
    sound_handle,      \* Doorway::sound_handle
    frame_status,      \* "off", "running", or the panic that ended the program
    history            \* the operations applied to the doorway so far

collideVars == <<result_map, ray_result, map_phase, map_calls, diag_directional>>

facelistVars ==
    <<rooms, q_status, initial_room, room_list, position, rad, quick_face_list,
      qfl, next_rooms, head, rooms_visited, num_faces, list_supplied, processed,
      touched_by_call, touch_count, appended>>

cellVars ==
    <<overflow_checks, c_status, initial_cell, cell_rad, stop_at, check_x, x_start,
      x_end, y_start, y_end, current_node, next_y_delta, loop_y, loop_x, visits>>

narrowVars == <<n_call, n_args, n_out>>

doorVars ==
    <<doorway_state, doorway_flags, is_active, doorway_position, dest_pos, door,
      assigned_room, door_obj_linked, sound_handle, frame_status, history>>

vars == <<collideVars, facelistVars, cellVars, narrowVars, doorVars>>

At(v, i) == v[i + 1]
SetAt(v, i, x) == [v EXCEPT ![i + 1] = x]

--------------------------------------------------------------------------
(* ObjectClass (object.rs): the discriminants 0..=Waypoint.                *)

Wall == 0
Fireball == 1
Robot == 2
Shard == 3
Player == 4
Weapon == 5
Viewer == 6
Powerup == 7
Debris == 8
Camera == 9
Shockwave == 10
Clutter == 11
Ghost == 12
Light == 13
Coop == 14
Marker == 15
Building == 16
Door == 17
Room == 18
Particle == 19
Splinter == 20
Dummy == 21
Observer == 22
DebugLine == 23
SoundSource == 24
Waypoint == 25

ObjectClass == Wall..Waypoint

CollisionResultType ==
    {"Nothing", "CheckSphereSphere", "CheckSpherePoly", "CheckPolySphere",
     "CheckBBoxPoly", "CheckPolyBBox", "CheckBBoxBBox", "CheckBBoxSphere",
     "CheckSphereBBox", "CheckSphereRoom", "CheckBBoxRoom"}

\* Bounds of the CollisionMap exploration.
MaxMapCalls == 2

\* The classes the explored enable/disable calls are made with.
CallClasses == {Wall, Robot, Powerup}

--------------------------------------------------------------------------
(* CollisionMap setters: each writes [type1][type2], then [type2][type1].  *)

SetPair(m, type1, type2, r12, r21) ==
    LET m1 == [m EXCEPT ![type1][type2] = r12]
    IN  [m1 EXCEPT ![type2][type1] = r21]

enable_collision_sphere_sphere(m, type1, type2) ==
    SetPair(m, type1, type2, "CheckSphereSphere", "CheckSphereSphere")

enable_collision_sphere_poly(m, type1, type2) ==
    SetPair(m, type1, type2, "CheckSpherePoly", "CheckPolySphere")

enable_collision_poly_sphere_Swapped(m, type1, type2) ==
    SetPair(m, type1, type2, "CheckPolySphere", "CheckPolySphere")

enable_collision_poly_sphere(m, type1, type2) ==
    SetPair(m, type1, type2, "CheckPolySphere", "CheckSpherePoly")

enable_collision_bbox_poly(m, type1, type2) ==
    SetPair(m, type1, type2, "CheckBBoxPoly", "CheckPolyBBox")

enable_collision_poly_bbox(m, type1, type2) ==
    SetPair(m, type1, type2, "CheckPolyBBox", "CheckBBoxPoly")

enable_collision_bbox_bbox(m, type1, type2) ==
    SetPair(m, type1, type2, "CheckBBoxBBox", "CheckBBoxBBox")

enable_collision_bbox_sphere_OneSided(m, type1, type2) ==
    [m EXCEPT ![type1][type2] = "CheckBBoxSphere"]

enable_collision_bbox_sphere(m, type1, type2) ==
    SetPair(m, type1, type2, "CheckBBoxSphere", "CheckSphereBBox")

enable_collision_sphere_bbox(m, type1, type2) ==
    SetPair(m, type1, type2, "CheckSphereBBox", "CheckBBoxSphere")

enable_collision_sphere_room(m, type1, type2) ==
    SetPair(m, type1, type2, "CheckSphereRoom", "CheckSphereRoom")

enable_collision_bbox_room(m, type1, type2) ==
    SetPair(m, type1, type2, "CheckBBoxRoom", "CheckBBoxRoom")

disable_collision(m, type1, type2) ==
    SetPair(m, type1, type2, "Nothing", "Nothing")

set_ray_result(rr, class, result) == [rr EXCEPT ![class] = result]

MapFns ==
    {"sphere_sphere", "sphere_poly", "poly_sphere", "bbox_poly", "poly_bbox",
     "bbox_bbox", "bbox_sphere", "sphere_bbox", "sphere_room", "bbox_room",
     "disable"}

DirectionalFns ==
    {"sphere_poly", "poly_sphere", "bbox_poly", "poly_bbox", "bbox_sphere",
     "sphere_bbox"}

\* One call of a CollisionMap setter, named by fn.
ApplyCall(m, fn, type1, type2) ==
    CASE fn = "sphere_sphere" -> enable_collision_sphere_sphere(m, type1, type2)
      [] fn = "sphere_poly"   -> enable_collision_sphere_poly(m, type1, type2)
      [] fn = "poly_sphere"   -> enable_collision_poly_sphere(m, type1, type2)
      [] fn = "bbox_poly"     -> enable_collision_bbox_poly(m, type1, type2)
      [] fn = "poly_bbox"     -> enable_collision_poly_bbox(m, type1, type2)
      [] fn = "bbox_bbox"     -> enable_collision_bbox_bbox(m, type1, type2)
      [] fn = "bbox_sphere"   -> enable_collision_bbox_sphere(m, type1, type2)
      [] fn = "sphere_bbox"   -> enable_collision_sphere_bbox(m, type1, type2)
      [] fn = "sphere_room"   -> enable_collision_sphere_room(m, type1, type2)
      [] fn = "bbox_room"     -> enable_collision_bbox_room(m, type1, type2)
      [] fn = "disable"       -> disable_collision(m, type1, type2)

ZeroedMap == [a \in ObjectClass |-> [b \in ObjectClass |-> "Nothing"]]
ZeroedRay == [a \in ObjectClass |-> "Nothing"]

Call(fn, type1, type2) == <<fn, type1, type2>>

\* The "for i in 0..=Waypoint" loop of default(): sphere-room for every class.
RoomLoopCalls == [i \in 1..(Waypoint + 1) |-> Call("sphere_room", i - 1, Room)]

\* The "specific collision rules" of default(), in source order.
SpecificCalls ==
    << Call("poly_sphere", Wall, Robot),
       Call("poly_sphere", Wall, Weapon),
       Call("poly_sphere", Wall, Player),
       Call("sphere_sphere", Robot, Robot),
       Call("poly_sphere", Player, Fireball),
       Call("sphere_sphere", Player, Player),
       Call("sphere_sphere", Player, Marker),
       Call("sphere_sphere", Marker, Player),
       Call("sphere_sphere", Weapon, Weapon),
       Call("poly_sphere", Robot, Player),
       Call("poly_sphere", Robot, Weapon),
       Call("poly_sphere", Player, Weapon),
       Call("sphere_sphere", Player, Powerup),
       Call("sphere_sphere", Powerup, Wall),
       Call("sphere_poly", Weapon, Clutter),
       Call("sphere_poly", Player, Clutter),
       Call("sphere_sphere", Clutter, Clutter),
       Call("sphere_poly", Robot, Clutter),
       Call("sphere_poly", Player, Building),
       Call("sphere_poly", Robot, Building),
       Call("sphere_poly", Weapon, Building),
       Call("sphere_poly", Clutter, Building),
       Call("sphere_poly", Clutter, Door),
       Call("sphere_poly", Building, Door),
       Call("sphere_room", Player, Room),
       Call("sphere_room", Robot, Room),
       Call("sphere_room", Weapon, Room),
       Call("sphere_room", Viewer, Room),
       Call("sphere_poly", Player, Door),
       Call("sphere_poly", Robot, Door),
       Call("sphere_poly", Weapon, Door),
       Call("disable", Powerup, Powerup) >>

\* All enable/disable calls of default(), in source order.
DefaultCalls_Overwriting ==
    RoomLoopCalls \o SpecificCalls \o << Call("sphere_sphere", Robot, Wall) >>

DefaultCalls == RoomLoopCalls \o SpecificCalls

\* The set_ray_result calls of default().
DefaultRayClasses == {Robot, Player, Weapon, Powerup, Clutter, Building, Door, Room}

RECURSIVE ApplyCalls(_, _, _)
ApplyCalls(m, calls, k) ==
    IF k > Len(calls) THEN m
    ELSE ApplyCalls(ApplyCall(m, calls[k][1], calls[k][2], calls[k][3]), calls, k + 1)

\* impl Default for CollisionMap: the table default() returns.
CollisionMapDefault == ApplyCalls(ZeroedMap, DefaultCalls, 1)

RayResultDefault ==
    [c \in ObjectClass |->
        IF c \in DefaultRayClasses
        THEN set_ray_result(ZeroedRay, c, "CheckSpherePoly")[c]
        ELSE ZeroedRay[c]]

--------------------------------------------------------------------------
(* Actions of the CollisionMap.                                            *)

CollideInit ==
    /\ result_map = ZeroedMap
    /\ ray_result = ZeroedRay
    /\ map_phase = "zeroed"
    /\ map_calls = 0
    /\ diag_directional = FALSE

\* CollisionMap::default(): the whole constructor.
Default ==
    /\ map_phase = "zeroed"
    /\ result_map' = CollisionMapDefault
    /\ ray_result' = RayResultDefault
    /\ map_phase' = "default"
    /\ UNCHANGED <<map_calls, diag_directional>>

\* One enable_collision_* / disable_collision call on the table.
MapCall(fn, type1, type2) ==
    /\ map_phase \in {"zeroed", "calls"}
    /\ map_calls < MaxMapCalls
    /\ result_map' = ApplyCall(result_map, fn, type1, type2)
    /\ map_phase' = "calls"
    /\ map_calls' = map_calls + 1
    /\ diag_directional' = (diag_directional \/ (fn \in DirectionalFns /\ type1 = type2))
    /\ UNCHANGED ray_result

EnableDisable == \E fn \in MapFns, type1 \in CallClasses, type2 \in CallClasses : MapCall(fn, type1, type2)

--------------------------------------------------------------------------
(* The level: rooms, faces, portals and bounding-box hierarchies (room.rs) *)

Vec(x, y, z) == [x |-> x, y |-> y, z |-> z]

None == << >>
Some(x) == << x >>
is_some(o) == o # << >>
unwrap(o) == o[1]

RoomIds == {0, 1, 2}

\* Bounds of the query inputs.
MaxRad == 3
MaxCap == 2

\* VecDeque::with_capacity(20).
NextRoomsCapacity == 20

VecRange(lo, hi) == [min |-> lo, max |-> hi]

\* A Face without portal: flags and AABB.
Wall_(flags, lo, hi) == [flags |-> flags, portal |-> None, min_xyz |-> lo, max_xyz |-> hi]

\* A Portal with its connected_room.
Portal(connected_room) == [connected_room |-> connected_room]

BoundingBoxFaceList(faces, range, sector) ==
    [faces |-> faces, range |-> range, sector |-> sector]

\* Geometry: three rooms in a row along x, each 2 wide, y and z in 0..2.
\* Room 0 has three faces in two sub-regions, room 1 three faces in two
\* sub-regions, room 2 two faces in three sub-regions.
Room0 ==
    [id |-> 0, flags |-> {"EXTERNAL"},
     faces |-> << Wall_({"LIGHTMAP"}, Vec(0, 0, 0), Vec(0, 2, 2)),
                  Wall_({}, Vec(2, 0, 0), Vec(2, 2, 2)),
                  Wall_({"DESTROYED"}, Vec(0, 2, 0), Vec(2, 2, 2)) >>,
     bounding_box |->
        [range |-> VecRange(Vec(0, 0, 0), Vec(2, 2, 2)),
         regions |-> << BoundingBoxFaceList(<<1, 2>>, VecRange(Vec(0, 0, 0), Vec(2, 2, 2)), 0),
                        BoundingBoxFaceList(<<0>>, VecRange(Vec(0, 0, 0), Vec(0, 2, 2)), 1) >>]]

Room1 ==
    [id |-> 1, flags |-> {},
     faces |-> << Wall_({}, Vec(2, 0, 0), Vec(2, 2, 2)),
                  Wall_({"LIGHTMAP"}, Vec(4, 0, 0), Vec(4, 2, 2)),
                  Wall_({}, Vec(2, 0, 0), Vec(4, 0, 2)) >>,
     bounding_box |->
        [range |-> VecRange(Vec(2, 0, 0), Vec(4, 2, 2)),
         regions |-> << BoundingBoxFaceList(<<0, 1>>, VecRange(Vec(2, 0, 0), Vec(4, 2, 2)), 0),
                        BoundingBoxFaceList(<<2>>, VecRange(Vec(2, 0, 0), Vec(4, 0, 2)), 2) >>]]

Room2 ==
    [id |-> 2, flags |-> {},
     faces |-> << Wall_({}, Vec(4, 0, 0), Vec(4, 2, 2)),
                  Wall_({"SCORCHED"}, Vec(6, 0, 0), Vec(6, 2, 2)) >>,
     bounding_box |->
        [range |-> VecRange(Vec(4, 0, 0), Vec(6, 2, 2)),
         regions |-> << BoundingBoxFaceList(<<0>>, VecRange(Vec(4, 0, 0), Vec(4, 2, 2)), 0),
                        BoundingBoxFaceList(<<1>>, VecRange(Vec(6, 0, 0), Vec(6, 2, 2)), 0),
                        BoundingBoxFaceList(<<1, 0>>, VecRange(Vec(4, 0, 0), Vec(6, 2, 2)), 8) >>]]

Geometry == [r \in RoomIds |-> CASE r = 0 -> Room0 [] r = 1 -> Room1 [] r = 2 -> Room2]

\* A portal graph: <<room, face, portal>> triples put on the faces.
WithPortals(level, triples) ==
    [r \in RoomIds |->
        [level[r] EXCEPT !.faces =
            [f \in 1..Len(level[r].faces) |->
                IF \E t \in triples : t[1] = r /\ t[2] = f - 1
                THEN [level[r].faces[f] EXCEPT !.portal =
                        Some((CHOOSE t \in triples : t[1] = r /\ t[2] = f - 1)[3])]
                ELSE level[r].faces[f]]]]

To(r) == Portal(Some(r))
Unconnected == Portal(None)

GraphNone == {}
GraphChain == {<<0, 1, To(1)>>, <<1, 0, To(0)>>, <<1, 1, To(2)>>, <<2, 0, To(1)>>}
GraphCycle == {<<0, 0, To(2)>>, <<0, 1, To(1)>>, <<1, 0, To(0)>>, <<1, 1, To(2)>>,
               <<2, 0, To(1)>>, <<2, 1, To(0)>>}
GraphOneWay == {<<0, 1, To(1)>>, <<1, 0, Unconnected>>, <<0, 2, To(2)>>}
GraphSelf == {<<0, 1, To(1)>>, <<1, 0, To(1)>>, <<1, 1, To(0)>>}
GraphCeiling == {<<0, 2, To(1)>>, <<1, 2, To(2)>>, <<2, 1, To(0)>>}

Graphs == {GraphNone, GraphChain, GraphCycle, GraphOneWay, GraphSelf, GraphCeiling}

Levels == {WithPortals(Geometry, g) : g \in Graphs}

Positions == {Vec(1, 1, 1), Vec(3, 1, 1)}
Rads == 0..MaxRad
Capacities == {None} \cup {Some(n) : n \in 0..MaxCap}

\* The orders a caller can list the rooms of the level in.
RoomLists ==
    {l \in [1..Cardinality(RoomIds) -> RoomIds] : \A i, j \in DOMAIN l : i # j => l[i] # l[j]}

--------------------------------------------------------------------------
(* Pure helpers of quick_dist_facelist.                                    *)

\* u8 bitwise and, on the six sector bits.
RECURSIVE BitAnd(_, _)
BitAnd(a, b) ==
    IF a = 0 \/ b = 0 THEN 0
    ELSE (IF a % 2 = 1 /\ b % 2 = 1 THEN 1 ELSE 0) + 2 * BitAnd(a \div 2, b \div 2)

room_manual_AABB(face, min_xyz, max_xyz) ==
    ~ ( \/ max_xyz.y < face.min_xyz.y
        \/ face.max_xyz.y < min_xyz.y
        \/ max_xyz.x < face.min_xyz.x
        \/ face.max_xyz.x < min_xyz.x
        \/ max_xyz.z < face.min_xyz.z
        \/ face.max_xyz.z < min_xyz.z )

\* The "quick volume" of the query.
QueryMin(pos, r) == Vec(pos.x - r, pos.y - r, pos.z - r)
QueryMax(pos, r) == Vec(pos.x + r, pos.y + r, pos.z + r)

\* m_sector of a room's bounding box against the query volume (lines 375-400).
MSector(bb_range, min_xyz, max_xyz) ==
      (IF min_xyz.x <= bb_range.min.x THEN 1 ELSE 0)
    + (IF min_xyz.y <= bb_range.min.y THEN 2 ELSE 0)
    + (IF min_xyz.z <= bb_range.min.x THEN 4 ELSE 0)
    + (IF max_xyz.x >= bb_range.max.x THEN 8 ELSE 0)
    + (IF max_xyz.y >= bb_range.max.y THEN 16 ELSE 0)
    + (IF max_xyz.z >= bb_range.max.z THEN 32 ELSE 0)

\* A sub-region is entered: its sector bits are all in m_sector and its range
\* overlaps the query volume (lines 408-417).
RegionEntered(bbf_list, m_sector, min_xyz, max_xyz) ==
    /\ BitAnd(bbf_list.sector, m_sector) = bbf_list.sector
    /\ ~ ( \/ bbf_list.range.min.x > max_xyz.x
           \/ bbf_list.range.min.y > max_xyz.y
           \/ bbf_list.range.min.z > max_xyz.z
           \/ bbf_list.range.max.x < min_xyz.x
           \/ bbf_list.range.max.y < min_xyz.y
           \/ bbf_list.range.max.z < min_xyz.z )

\* flags.insert(FaceFlags::TOUCHED)
InsertTouched_Assign(flags) == {"TOUCHED"}

InsertTouched(flags) == flags \cup {"TOUCHED"}

\* !rooms_visited.contains(&connected_room.id())
NotVisited_Always(visited, id) == TRUE

NotVisited(visited, id) == id \notin visited

\* The record written for a passing face met in sub-region i of room_id.
FaceRoomRecord(i, face_index, room_id) == [face_index |-> i, room_index |-> room_id]

--------------------------------------------------------------------------
(* The body of the while loop, as a fold over the sub-regions and their    *)
(* faces.  The fold state st holds the locals the loops update.            *)

\* One face that passed room_manual_AABB, met as entry of sub-region i
\* (lines 426-464).
PassingFace(st, room, i, face_index) ==
    IF st.qfl /\ ~(st.num_faces < Len(st.list))
    THEN \* the list is full: qfl = None; break
         [st EXCEPT !.qfl = FALSE, !.brk = TRUE]
    ELSE LET s1 == IF st.qfl
                   THEN [st EXCEPT !.list = SetAt(st.list, st.num_faces,
                                                 Some(FaceRoomRecord(i, face_index, room.id))),
                                   !.appended = Append(st.appended, <<face_index, room.id>>)]
                   ELSE [st EXCEPT !.num_faces = st.num_faces + 1]
             s2 == [s1 EXCEPT !.faces_touched = Append(s1.faces_touched, i)]
         IN  IF ~(i < Len(room.faces))
             THEN \* current_room.faces[i]: index out of bounds
                  [s2 EXCEPT !.panic = TRUE]
             ELSE LET portal == At(room.faces, i).portal
                  IN  IF is_some(portal)
                         /\ is_some(unwrap(portal).connected_room)
                         /\ Len(s2.next_rooms) < NextRoomsCapacity
                      THEN LET connected_room == unwrap(unwrap(portal).connected_room)
                           IN  IF connected_room = room.id
                               THEN \* borrow() of the room held by borrow_mut()
                                    [s2 EXCEPT !.panic = TRUE]
                               ELSE IF NotVisited(s2.rooms_visited, connected_room)
                                    THEN [s2 EXCEPT
                                            !.rooms_visited = @ \cup {connected_room},
                                            !.next_rooms = Append(@, connected_room)]
                                    ELSE s2
                      ELSE s2

\* for face_index in &bbf_list.faces, from entry k on (lines 419-465).
RECURSIVE RegionFaces(_, _, _, _, _, _)
RegionFaces(st, room, i, k, min_xyz, max_xyz) ==
    IF st.panic \/ st.brk \/ k > Len(At(room.bounding_box.regions, i).faces) THEN st
    ELSE LET face_index == At(room.bounding_box.regions, i).faces[k]
             face == At(room.faces, face_index)
         IN  IF ~room_manual_AABB(face, min_xyz, max_xyz)
             THEN RegionFaces(st, room, i, k + 1, min_xyz, max_xyz)
             ELSE RegionFaces(PassingFace(st, room, i, face_index),
                              room, i, k + 1, min_xyz, max_xyz)

\* for (i, bbf_list) in regions.iter().enumerate(), from sub-region i on
\* (lines 405-467).
RECURSIVE Regions(_, _, _, _, _, _)
Regions(st, room, i, m_sector, min_xyz, max_xyz) ==
    IF st.panic \/ ~(i < Len(room.bounding_box.regions)) THEN st
    ELSE IF RegionEntered(At(room.bounding_box.regions, i), m_sector, min_xyz, max_xyz)
         THEN Regions([RegionFaces(st, room, i, 1, min_xyz, max_xyz) EXCEPT !.brk = FALSE],
                      room, i + 1, m_sector, min_xyz, max_xyz)
         ELSE Regions(st, room, i + 1, m_sector, min_xyz, max_xyz)

\* for touched in faces_touched: faces[touched].flags.insert(TOUCHED)
\* (lines 469-471).
MarkTouched(room, faces_touched) ==
    [room EXCEPT !.faces =
        [f \in 1..Len(room.faces) |->
            IF \E k \in 1..Len(faces_touched) : faces_touched[k] = f - 1
            THEN [room.faces[f] EXCEPT !.flags = InsertTouched(@)]
            ELSE room.faces[f]]]

\* The room one iteration works on: room_list.get(head).unwrap() (line 371).
CurrentRoom(list, queue, h) == At(list, h)

--------------------------------------------------------------------------
(* Actions of quick_dist_facelist.                                         *)

FacelistBlank ==
    /\ initial_room = 0
    /\ room_list = << >>
    /\ position = Vec(0, 0, 0)
    /\ rad = 0
    /\ quick_face_list = << >>
    /\ qfl = FALSE
    /\ next_rooms = << >>
    /\ head = 0
    /\ rooms_visited = {}
    /\ num_faces = 0
    /\ list_supplied = FALSE
    /\ processed = << >>
    /\ touched_by_call = {}
    /\ touch_count = 0
    /\ appended = << >>

\* No level loaded (the CollisionMap is explored alone).
FacelistOff == rooms = << >> /\ q_status = "off" /\ FacelistBlank

\* A level is loaded, no query in progress.
FacelistInit == rooms \in Levels /\ q_status = "idle" /\ FacelistBlank

\* quick_dist_facelist is entered: lines 336-366. debug_assert!(rad >= 0.0)
\* (line 336) is compiled in the debug build only; when it fails the call
\* panics before any local is made.
Enter(ir, rl, pos, r, cap, debug) ==
    /\ initial_room' = ir
    /\ room_list' = rl
    /\ position' = pos
    /\ rad' = r
    /\ quick_face_list' = IF is_some(cap) THEN [k \in 1..unwrap(cap) |-> None] ELSE << >>
    /\ list_supplied' = is_some(cap)
    /\ head' = 0
    /\ num_faces' = 0
    /\ processed' = << >>
    /\ touched_by_call' = {}
    /\ touch_count' = 0
    /\ appended' = << >>
    /\ IF debug /\ ~(r >= 0)
       THEN /\ q_status' = "panicked"
            /\ qfl' = FALSE
            /\ next_rooms' = << >>
            /\ rooms_visited' = {}
       ELSE /\ q_status' = "loop"
            /\ qfl' = is_some(cap)
            /\ next_rooms' = << ir >>
            /\ rooms_visited' = {rooms[ir].id}
    /\ UNCHANGED rooms

Query ==
    /\ q_status = "idle"
    /\ \E ir \in RoomIds, rl \in RoomLists, pos \in Positions, r \in Rads \cup {0 - 1},
          cap \in Capacities, debug \in BOOLEAN :
        Enter(ir, rl, pos, r, cap, debug)

\* One iteration of the while loop: lines 370-474.
ProcessRoom ==
    /\ q_status = "loop"
    /\ head < Len(next_rooms)
    /\ IF ~(head < Len(room_list))
       THEN \* room_list.get(head).unwrap() on None
            /\ q_status' = "panicked"
            /\ UNCHANGED <<rooms, initial_room, room_list, position, rad, quick_face_list,
                           qfl, next_rooms, head, rooms_visited, num_faces, list_supplied,
                           processed, touched_by_call, touch_count, appended>>
       ELSE LET id == CurrentRoom(room_list, next_rooms, head)
                current_room == rooms[id]
                min_xyz == QueryMin(position, rad)
                max_xyz == QueryMax(position, rad)
                m_sector == MSector(current_room.bounding_box.range, min_xyz, max_xyz)
                st0 == [qfl |-> qfl, list |-> quick_face_list, num_faces |-> num_faces,
                        faces_touched |-> << >>, next_rooms |-> next_rooms,
                        rooms_visited |-> rooms_visited, appended |-> appended,
                        panic |-> FALSE, brk |-> FALSE]
            IN  \E st \in {Regions(st0, current_room, 0, m_sector, min_xyz, max_xyz)} :
                /\ quick_face_list' = st.list
                /\ qfl' = st.qfl
                /\ num_faces' = st.num_faces
                /\ next_rooms' = st.next_rooms
                /\ rooms_visited' = st.rooms_visited
                /\ appended' = st.appended
                /\ processed' = Append(processed, id)
                /\ IF st.panic
                   THEN /\ q_status' = "panicked"
                        /\ UNCHANGED <<rooms, head, touched_by_call, touch_count>>
                   ELSE /\ rooms' = [rooms EXCEPT ![id] = MarkTouched(current_room, st.faces_touched)]
                        /\ touched_by_call' = touched_by_call \cup
                              {<<id, st.faces_touched[k]>> : k \in 1..Len(st.faces_touched)}
                        /\ touch_count' = touch_count + Len(st.faces_touched)
                        /\ head' = head + 1
                        /\ UNCHANGED q_status
                /\ UNCHANGED <<initial_room, room_list, position, rad, list_supplied>>

\* The loop has ended: num_faces is returned (line 476) and the call's
\* locals are dropped.
Return ==
    /\ q_status = "loop"
    /\ ~(head < Len(next_rooms))
    /\ q_status' = "idle"
    /\ initial_room' = 0
    /\ room_list' = << >>
    /\ position' = Vec(0, 0, 0)
    /\ rad' = 0
    /\ quick_face_list' = << >>
    /\ qfl' = FALSE
    /\ next_rooms' = << >>
    /\ head' = 0
    /\ rooms_visited' = {}
    /\ num_faces' = 0
    /\ list_supplied' = FALSE
    /\ processed' = << >>
    /\ touched_by_call' = {}
    /\ touch_count' = 0
    /\ appended' = << >>
    /\ UNCHANGED rooms

\* The call is about to return num_faces.
AtReturn == q_status = "loop" /\ ~(head < Len(next_rooms))

--------------------------------------------------------------------------
(* process_cells: the terrain window walk (intersection.rs 1448-1488).     *)

TERRAIN_WIDTH == 256
TERRAIN_DEPTH == 256
TERRAIN_SIZE == 16

\* Bound of the visitors explored: a visitor answers false from its n-th
\* call on, n in 1..MaxStopAt, or never (0).
MaxStopAt == 2

\* An f32 radius: a whole number of world units, or f32::MAX.
F32(n) == [finite |-> TRUE, v |-> n]
F32_MAX == [finite |-> FALSE, v |-> 0]

\* (rad / TERRAIN_SIZE) as usize: the float-to-integer cast truncates and
\* saturates; is_max marks the saturated value usize::MAX.
QuotientAsUsize(r) ==
    IF r.finite
    THEN [is_max |-> FALSE, v |-> IF r.v < 0 THEN 0 ELSE r.v \div TERRAIN_SIZE]
    ELSE [is_max |-> TRUE, v |-> 0]

\* q + 1 in usize: overflows exactly at usize::MAX, where the wrapped sum is 0.
PlusOneOverflows(q) == q.is_max
PlusOneWrapping(q) == IF q.is_max THEN 0 ELSE q.v + 1

saturating_sub(a, b) == IF a >= b THEN a - b ELSE 0
min(a, b) == IF a <= b THEN a ELSE b
max(a, b) == IF a >= b THEN a ELSE b

\* The window bounds of lines 1462-1468.
XStart(cell, check) == saturating_sub(cell % TERRAIN_WIDTH, check)
XEnd(cell, check) == min((cell % TERRAIN_WIDTH) + check, TERRAIN_WIDTH - 1)
YStart(cell, check) == saturating_sub(cell \div TERRAIN_WIDTH, check)
YEnd(cell, check) == min((cell \div TERRAIN_WIDTH) + check, TERRAIN_DEPTH - 1)

\* next_y_delta of line 1472.
NextYDelta(xs, xe) == TERRAIN_WIDTH - (xe - xs) - 1

\* The visitor's answer to its n-th call.
Condition(stop, n) == stop = 0 \/ n < stop

\* The searches explored: every visitor on small windows at the corners, on
\* the borders and inside the grid; the always-true visitor on a window
\* larger than the grid and on the largest radius.
CornerCells == {0, TERRAIN_WIDTH - 1, TERRAIN_WIDTH * (TERRAIN_DEPTH - 1),
                TERRAIN_WIDTH * TERRAIN_DEPTH - 1}
InnerCells == {TERRAIN_WIDTH + 1, TERRAIN_WIDTH * 128 + 128, TERRAIN_WIDTH * 2 + 254}
SmallRads == {F32(0), F32(15), F32(16), F32(17), F32(40)}
GridRad == F32(5000)
\* A cell index past the last row of the grid.
OffGridCell == TERRAIN_WIDTH * 300 + 5

CellSearches ==
    ((CornerCells \cup InnerCells) \X SmallRads \X (0..MaxStopAt))
    \cup ({0, TERRAIN_WIDTH * 128 + 128} \X {GridRad} \X {0})
    \cup ((CornerCells \cup InnerCells) \X {F32_MAX} \X {0})
    \cup ({OffGridCell} \X {F32(16)} \X {0})

CellsBlank ==
    /\ initial_cell = 0
    /\ cell_rad = F32(0)
    /\ stop_at = 0
    /\ check_x = 0
    /\ x_start = 0
    /\ x_end = 0
    /\ y_start = 0
    /\ y_end = 0
    /\ current_node = 0
    /\ next_y_delta = 0
    /\ loop_y = 0
    /\ loop_x = 0
    /\ visits = 0

CellsOff == c_status = "off" /\ overflow_checks = FALSE /\ CellsBlank

\* The crate is built with (debug) or without (release) overflow checks.
CellsInit == c_status = "idle" /\ overflow_checks \in BOOLEAN /\ CellsBlank

\* process_cells is entered: lines 1459-1473, up to the first visitor call;
\* no call is made when the range y_start..=y_end is empty (line 1476).
\* With overflow checks the addition at usize::MAX panics, without them it
\* wraps.
EnterCells(cell, r, stop) ==
    LET q == QuotientAsUsize(r)
        check == PlusOneWrapping(q)
    IN  /\ initial_cell' = cell
        /\ cell_rad' = r
        /\ stop_at' = stop
        /\ visits' = 0
        /\ IF PlusOneOverflows(q) /\ overflow_checks
           THEN /\ c_status' = "panicked"
                /\ UNCHANGED <<check_x, x_start, x_end, y_start, y_end, current_node,
                               next_y_delta, loop_y, loop_x>>
           ELSE /\ c_status' = IF YStart(cell, check) <= YEnd(cell, check)
                                THEN "visit" ELSE "done"
                /\ check_x' = check
                /\ x_start' = XStart(cell, check)
                /\ x_end' = XEnd(cell, check)
                /\ y_start' = YStart(cell, check)
                /\ y_end' = YEnd(cell, check)
                /\ current_node' = TERRAIN_WIDTH * YStart(cell, check) + XStart(cell, check)
                /\ next_y_delta' = NextYDelta(XStart(cell, check), XEnd(cell, check))
                /\ loop_y' = YStart(cell, check)
                /\ loop_x' = XStart(cell, check)
        /\ UNCHANGED overflow_checks

Search ==
    /\ c_status = "idle"
    /\ \E s \in CellSearches : EnterCells(s[1], s[2], s[3])

\* The row is left (its last cell was visited, or the visitor said false):
\* current_node += next_y_delta, then the next row or the end of the walk.
EndRow(node) ==
    /\ current_node' = node + next_y_delta
    /\ IF loop_y < y_end
       THEN /\ loop_y' = loop_y + 1
            /\ loop_x' = x_start
            /\ UNCHANGED c_status
       ELSE /\ c_status' = "done"
            /\ UNCHANGED <<loop_y, loop_x>>

\* One call of the visitor with current_node, and the loop control that
\* follows it: lines 1476-1485.
Visit ==
    /\ c_status = "visit"
    /\ visits' = visits + 1
    /\ IF Condition(stop_at, visits + 1)
       THEN IF loop_x < x_end
            THEN /\ current_node' = current_node + 1
                 /\ loop_x' = loop_x + 1
                 /\ UNCHANGED <<loop_y, c_status>>
            ELSE EndRow(current_node + 1)
       ELSE EndRow(current_node)
    /\ UNCHANGED <<overflow_checks, initial_cell, cell_rad, stop_at, check_x, x_start,
                   x_end, y_start, y_end, next_y_delta>>

\* process_cells returns (line 1487).
ReturnCells ==
    /\ c_status = "done"
    /\ c_status' = "idle"
    /\ initial_cell' = 0
    /\ cell_rad' = F32(0)
    /\ stop_at' = 0
    /\ check_x' = 0
    /\ x_start' = 0
    /\ x_end' = 0
    /\ y_start' = 0
    /\ y_end' = 0
    /\ current_node' = 0
    /\ next_y_delta' = 0
    /\ loop_y' = 0
    /\ loop_x' = 0
    /\ visits' = 0
    /\ UNCHANGED overflow_checks

--------------------------------------------------------------------------
(* The narrow-phase functions (intersection.rs) on whole-number inputs.   *)
(* An f32 that a division produces is an exact fraction; a magnitude is   *)
(* compared through its square; a &mut output the call did not write is   *)
(* None.                                                                   *)

Abs(a) == IF a < 0 THEN 0 - a ELSE a

RECURSIVE GCD(_, _)
GCD(a, b) == IF b = 0 THEN a ELSE GCD(b, a % b)

\* The fraction n / d (d # 0) in lowest terms with a positive denominator.
Rat(n, d) ==
    LET g == GCD(Abs(n), Abs(d))
        s == IF d < 0 THEN 0 - 1 ELSE 1
    IN  [n |-> (s * n) \div g, d |-> (s * d) \div g]

RInt(a) == [n |-> a, d |-> 1]
RAdd(p, q) == Rat(p.n * q.d + q.n * p.d, p.d * q.d)
RSub(p, q) == Rat(p.n * q.d - q.n * p.d, p.d * q.d)
RMul(p, q) == Rat(p.n * q.n, p.d * q.d)
RLe(p, q) == p.n * q.d <= q.n * p.d

\* Vector arithmetic (math/vector.rs).
VAdd(a, b) == Vec(a.x + b.x, a.y + b.y, a.z + b.z)
VSub(a, b) == Vec(a.x - b.x, a.y - b.y, a.z - b.z)
mul_scalar(a, k) == Vec(a.x * k, a.y * k, a.z * k)
dot(a, b) == (a.x * b.x) + (a.y * b.y) + (a.z * b.z)

\* A vector of fractions; RVec lifts a whole-number vector.
RVec(a) == Vec(RInt(a.x), RInt(a.y), RInt(a.z))
RVSub(a, b) == Vec(RSub(a.x, b.x), RSub(a.y, b.y), RSub(a.z, b.z))
RDot(a, b) == RAdd(RAdd(RMul(a.x, b.x), RMul(a.y, b.y)), RMul(a.z, b.z))
RCross(a, b) ==
    Vec(RSub(RMul(a.y, b.z), RMul(a.z, b.y)),
        RSub(RMul(a.z, b.x), RMul(a.x, b.z)),
        RSub(RMul(a.x, b.y), RMul(a.y, b.x)))

\* a + (n / d) * b.
AddScaled(a, n, d, b) ==
    Vec(Rat(a.x * d + n * b.x, d), Rat(a.y * d + n * b.y, d), Rat(a.z * d + n * b.z, d))

NarrowOff == n_call = "off" /\ n_args = << >> /\ n_out = << >>
NarrowInit == n_call = "none" /\ n_args = << >> /\ n_out = << >>

\* proj_dist_line.abs() <= 0.00000000001 (line 726): for a whole number this
\* is zero.
AlmostParallel(proj_dist_line) == Abs(proj_dist_line) = 0

Miss == [status |-> "returned", hit |-> FALSE, intp |-> None, colp |-> None]

\* assert!(rad >= 0.0) (line 685) failed.
PlanePanicked == [status |-> "panicked", hit |-> FALSE, intp |-> None, colp |-> None]

\* A plausible slip: the radius is not added to the distance of p0 to the
\* plane (line 709 left out).
find_plane_line_intersection_NoRadius(plane_point, plane_normal, p0, p1, r) ==
    LET line_vec == VSub(p1, p0)
        proj_dist_line == dot(plane_normal, line_vec)
        d == dot(plane_normal, VSub(plane_point, p0))
    IN  IF proj_dist_line >= 0 \/ d > 0 \/ d <= proj_dist_line
        THEN Miss
        ELSE [status |-> "returned", hit |-> TRUE,
              intp |-> Some(AddScaled(p0, d, proj_dist_line, line_vec)),
              colp |-> Some(AddScaled(p0, d, proj_dist_line, line_vec))]

\* The sphere pokes through the plane at its initial position (line 711).
InitiallyPoking_Never(proj_dist_point_plane, proj_dist_line) == FALSE
InitiallyPoking(proj_dist_point_plane, proj_dist_line) ==
    proj_dist_point_plane > 0 /\ proj_dist_line < 0

\* find_plane_line_intersection (lines 676-746).
find_plane_line_intersection(plane_point, plane_normal, p0, p1, r) ==
    LET line_vec == VSub(p1, p0)
        proj_dist_line == dot(plane_normal, line_vec)
        point_plane_vec == VSub(plane_point, p0)
        before_rad == dot(plane_normal, point_plane_vec)
        proj_dist_point_plane == before_rad + r
        plane_dist == dot(VSub(p1, plane_point), plane_normal)
        parallel_intp == VAdd(p1, mul_scalar(plane_normal, r - plane_dist))
        combination == AddScaled(p0, proj_dist_point_plane, proj_dist_line, line_vec)
    IN  IF ~(r >= 0) THEN PlanePanicked
        ELSE IF proj_dist_line >= 0 THEN Miss
        ELSE IF before_rad > 0 THEN Miss
        ELSE IF InitiallyPoking(proj_dist_point_plane, proj_dist_line)
        THEN [status |-> "returned", hit |-> TRUE,
              intp |-> Some(RVec(p0)),
              colp |-> Some(RVec(VAdd(p0, mul_scalar(plane_normal,
                                                     (0 - r) + proj_dist_point_plane))))]
        ELSE IF proj_dist_point_plane <= proj_dist_line THEN Miss
        ELSE IF AlmostParallel(proj_dist_line)
        THEN IF plane_dist >= r THEN Miss
             ELSE [status |-> "returned", hit |-> TRUE,
                   intp |-> Some(RVec(parallel_intp)),
                   colp |-> Some(RVec(VAdd(parallel_intp, mul_scalar(plane_normal, 0 - r))))]
        ELSE [status |-> "returned", hit |-> TRUE,
              intp |-> Some(combination),
              colp |-> Some(RVSub(combination, RVec(mul_scalar(plane_normal, r))))]

\* The planes, points and radii explored.
PlaneNormals == {Vec(0, 0, 0 - 1), Vec(0, 0, 1), Vec(1, 0, 0), Vec(0, 1, 1), Vec(1, 2, 0 - 2)}
PlanePoints == {Vec(0, 0, 0), Vec(1, 0, 2)}
Coordinates == {Vec(x, y, z) : x \in {0, 1}, y \in {0, 2}, z \in {0 - 5, 0 - 2, 0 - 1, 0, 1, 2, 5}}
Radii == 0..MaxRad

\* The caller is done with the result of the last call.
NarrowReturn ==
    /\ n_call \notin {"off", "none"}
    /\ n_call' = "none"
    /\ n_args' = << >>
    /\ n_out' = << >>

PlaneLine ==
    /\ n_call = "none"
    /\ \E plane_point \in PlanePoints, plane_normal \in PlaneNormals,
       p0 \in Coordinates, p1 \in Coordinates, r \in Radii \cup {0 - 1} :
        /\ n_call' = "find_plane_line_intersection"
        /\ n_args' = [plane_point |-> plane_point, plane_normal |-> plane_normal,
                      p0 |-> p0, p1 |-> p1, rad |-> r]
        /\ n_out' = find_plane_line_intersection(plane_point, plane_normal, p0, p1, r)

\* Vector::as_slice: component k of a vector.
as_slice(v, k) == CASE k = 0 -> v.x [] k = 1 -> v.y [] k = 2 -> v.z

IJ_TABLE == << <<2, 1>>, <<0, 2>>, <<1, 0>> >>

\* The axis of the largest normal component (lines 842-852).
Biggest(face_normal) ==
    IF Abs(face_normal.x) > Abs(face_normal.y)
    THEN IF Abs(face_normal.x) > Abs(face_normal.z) THEN 0 ELSE 2
    ELSE IF Abs(face_normal.y) > Abs(face_normal.z) THEN 1 ELSE 2

\* The projection axes i and j (lines 862-868).
AxisI(face_normal) ==
    LET biggest == Biggest(face_normal)
    IN  IF as_slice(face_normal, biggest) > 0
        THEN At(At(IJ_TABLE, biggest), 0) ELSE At(At(IJ_TABLE, biggest), 1)

AxisJ(face_normal) ==
    LET biggest == Biggest(face_normal)
    IN  IF as_slice(face_normal, biggest) > 0
        THEN At(At(IJ_TABLE, biggest), 1) ELSE At(At(IJ_TABLE, biggest), 0)

\* The determinant d of one edge (lines 875-887): check_vec starts as
\* Vector2D::default() and only has v0 subtracted from it.
EdgeDeterminant(colp, face_normal, nv, vector_list, edge) ==
    LET i == AxisI(face_normal)
        j == AxisJ(face_normal)
        v0 == At(vector_list, edge)
        v1 == At(vector_list, (edge + 1) % nv)
        edge_vec == [x |-> as_slice(v1, i) - as_slice(v0, i),
                     y |-> as_slice(v1, j) - as_slice(v0, j)]
        check_vec == [x |-> 0 - as_slice(v0, i), y |-> 0 - as_slice(v0, j)]
    IN  check_vec.x * edge_vec.y - check_vec.y * edge_vec.x

RECURSIVE EdgeMask(_, _, _, _, _)
EdgeMask(colp, face_normal, nv, vector_list, edge) ==
    IF edge = nv THEN 0
    ELSE (IF EdgeDeterminant(colp, face_normal, nv, vector_list, edge) < 0
          THEN 2 ^ edge ELSE 0)
         + EdgeMask(colp, face_normal, nv, vector_list, edge + 1)

\* check_point_to_face (lines 831-896).
check_point_to_face(colp, face_normal, nv, vector_list) ==
    EdgeMask(colp, face_normal, nv, vector_list, 0)

\* The faces explored: a square in a z plane and a triangle in an x plane,
\* each with both normals and both windings, at several places relative to
\* the origin.
Translate(vector_list, by) == [k \in DOMAIN vector_list |-> VAdd(vector_list[k], by)]
Reverse(vector_list) ==
    [k \in DOMAIN vector_list |-> vector_list[Len(vector_list) + 1 - k]]
Square == <<Vec(0, 0, 0), Vec(2, 0, 0), Vec(2, 2, 0), Vec(0, 2, 0)>>
Triangle == <<Vec(0, 0, 0), Vec(0, 3, 0), Vec(0, 0, 3)>>
Offsets == {Vec(0, 0, 0), Vec(0 - 1, 0 - 1, 0 - 1), Vec(3, 3, 1), Vec(0 - 4, 1, 0)}
Faces ==
    UNION {{[normal |-> n, verts |-> Translate(Square, by)],
            [normal |-> n, verts |-> Translate(Reverse(Square), by)]} :
           n \in {Vec(0, 0, 1), Vec(0, 0, 0 - 1)}, by \in Offsets}
    \cup UNION {{[normal |-> n, verts |-> Translate(Triangle, by)],
                 [normal |-> n, verts |-> Translate(Reverse(Triangle), by)]} :
                n \in {Vec(1, 0, 0), Vec(0 - 2, 1, 0)}, by \in Offsets}
FacePoints == {Vec(x, y, z) : x \in (0 - 5)..6, y \in (0 - 2)..6, z \in (0 - 1)..4}

PointToFace ==
    /\ n_call = "none"
    /\ \E face \in Faces, colp \in FacePoints :
        /\ n_call' = "check_point_to_face"
        /\ n_args' = [colp |-> colp, face_normal |-> face.normal,
                      nv |-> Len(face.verts), vector_list |-> face.verts]
        /\ n_out' = [edgemask |-> check_point_to_face(colp, face.normal,
                                                     Len(face.verts), face.verts)]

\* Vector::ZERO (math/vector.rs:20-24), in thousandths.
ZERO_Thousandths == Vec(0, 0, 32)

\* Vector::normalize (math/mod.rs:179-191): the magnitude is returned (here
\* its square); `vector.div_scalar(mag)` builds the scaled vector and drops
\* it, so a non-zero vector is left as it was. A zero vector becomes
\* (1, ZERO.y, ZERO.z), in thousandths here; the calls explored never
\* normalise a zero vector.
normalize(vector) ==
    [mag_squared |-> dot(vector, vector),
     vector |-> IF dot(vector, vector) > 0 THEN vector
                ELSE Vec(1000, ZERO_Thousandths.y, ZERO_Thousandths.z)]

\* a >= sqrt(m) + b and a > sqrt(m), for whole numbers a, b and m >= 0.
GeMagnitudePlus(a, m, b) == a - b >= 0 /\ (a - b) * (a - b) >= m
GtMagnitude(a, m) == a > 0 /\ a * a > m

SphereMiss == [hit |-> FALSE, intp |-> None, col_dist |-> None]

\* check_vector_to_sphere (lines 904-981). init_collisions is not read; the
\* miss of line 973 comes after col_dist was written (line 971).
\* The intp of the correcting branch is whole + root * sqrt(of).
check_vector_to_sphere(p0, p1, sphere_pos, sphere_rad, correcting, init_collisions) ==
    LET line_vec == VSub(p1, p0)
        point_to_center_vec == VSub(sphere_pos, p0)
        normalized_line_vec == normalize(line_vec).vector
        mag_line_squared == normalize(line_vec).mag_squared
        closet_point_dist == dot(normalized_line_vec, point_to_center_vec)
        n_ptc == normalize(point_to_center_vec).vector
        closet_point == VAdd(p0, mul_scalar(normalized_line_vec, closet_point_dist))
        closest_mag_squared == dot(VSub(closet_point, sphere_pos),
                                   VSub(closet_point, sphere_pos))
        shorten == sphere_rad * sphere_rad - closest_mag_squared
        col_dist == closet_point_dist - shorten
    IN  IF dot(line_vec, point_to_center_vec) <= 0 THEN SphereMiss
        ELSE IF closet_point_dist < 0
                \/ GeMagnitudePlus(closet_point_dist, mag_line_squared, sphere_rad)
        THEN SphereMiss
        ELSE IF dot(point_to_center_vec, point_to_center_vec) < sphere_rad * sphere_rad
        THEN IF correcting
             THEN [hit |-> TRUE,
                   intp |-> Some([whole |-> VSub(p0, mul_scalar(n_ptc, sphere_rad)),
                                  root |-> n_ptc,
                                  of |-> sphere_rad * sphere_rad
                                         - dot(point_to_center_vec, point_to_center_vec)]),
                   col_dist |-> Some(0)]
             ELSE SphereMiss
        ELSE IF closest_mag_squared >= sphere_rad * sphere_rad THEN SphereMiss
        ELSE IF GtMagnitude(col_dist, mag_line_squared)
        THEN [hit |-> FALSE, intp |-> None, col_dist |-> Some(col_dist)]
        ELSE [hit |-> TRUE,
              intp |-> Some(VAdd(p0, mul_scalar(normalized_line_vec, col_dist))),
              col_dist |-> Some(col_dist)]

\* The sphere queries explored.
SpherePoints == {Vec(x, y, 0) : x \in (0 - 2)..3, y \in (0 - 1)..1}

VectorToSphere ==
    /\ n_call = "none"
    /\ \E p0 \in SpherePoints, p1 \in SpherePoints,
          sphere_pos \in SpherePoints \cup {Vec(2, 3, 2)},
          sphere_rad \in Radii, correcting \in BOOLEAN, init_collisions \in BOOLEAN :
        /\ n_call' = "check_vector_to_sphere"
        /\ n_args' = [p0 |-> p0, p1 |-> p1, sphere_pos |-> sphere_pos,
                      sphere_rad |-> sphere_rad, correcting |-> correcting,
                      init_collisions |-> init_collisions]
        /\ n_out' = check_vector_to_sphere(p0, p1, sphere_pos, sphere_rad,
                                           correcting, init_collisions)

\* is_point_in_cylinder (lines 983-1013). normal and collide are the values
\* left in the two &mut parameters, which come in as Vector::ZERO and false.
\* The magnitude of line 1002 is never below a negative rad.
is_point_in_cylinder(cylinder_point, edir, elen_squared, r, point, mdir) ==
    LET plen == dot(VSub(point, cylinder_point), edir)
        newp == VAdd(cylinder_point, mul_scalar(edir, plen))
        normal == normalize(VSub(point, newp))
    IN  IF plen < 0 \/ GtMagnitude(plen, elen_squared)
        THEN [result |-> FALSE, normal |-> ZERO_Thousandths, collide |-> FALSE]
        ELSE IF r < 0 \/ normal.mag_squared >= r * r
        THEN [result |-> FALSE, normal |-> normal.vector, collide |-> FALSE]
        ELSE [result |-> TRUE, normal |-> normal.vector,
              collide |-> ~(dot(normal.vector, mdir) >= 0)]

\* Matrix::from_vector (math/mod.rs:540-566) with a forward vector asserts
\* that up and right are given too.
from_vector_asserts(forward, up, right) ==
    is_some(forward) => (is_some(up) /\ is_some(right))

CylinderMiss ==
    [status |-> "returned", hit |-> FALSE, col_dist |-> None, intp |-> None,
     colp |-> None, wall_norm |-> None]

\* check_vector_to_cylinder (lines 1016-1182). When is_point_in_cylinder
\* answers true the swept test starts with
\* Matrix::from_vector(Some(&edgevec), None, None) (line 1045), whose
\* assertion fails; when it answers false init_collide is still false.
check_vector_to_cylinder(p0, p1, r, ep0, ep1) ==
    LET edgevec == normalize(VSub(ep1, ep0))
        mvec3d == normalize(VSub(p1, p0))
        init == is_point_in_cylinder(ep0, edgevec.vector, edgevec.mag_squared, r, p0,
                                     mvec3d.vector)
    IN  IF init.result
        THEN IF from_vector_asserts(Some(edgevec.vector), None, None)
             THEN [status |-> "swept", hit |-> FALSE, col_dist |-> None, intp |-> None,
                   colp |-> None, wall_norm |-> None]
             ELSE [status |-> "panicked", hit |-> FALSE, col_dist |-> None,
                   intp |-> None, colp |-> None, wall_norm |-> None]
        ELSE IF init.collide
        THEN [status |-> "returned", hit |-> TRUE, col_dist |-> Some(0),
              intp |-> Some(p0),
              colp |-> Some(VSub(p0, mul_scalar(init.normal, r))),
              wall_norm |-> Some(init.normal)]
        ELSE CylinderMiss

\* The edges and motions explored.
Edges == {<<Vec(0, 0, 0), Vec(4, 0, 0)>>, <<Vec(1, 0 - 1, 0), Vec(1, 2, 0)>>}
CylinderPoints == {Vec(x, y, 0) : x \in (0 - 2)..5, y \in (0 - 3)..3}

VectorToCylinder ==
    /\ n_call = "none"
    /\ \E p0 \in CylinderPoints, p1 \in CylinderPoints, r \in Radii \cup {0 - 1},
          edge \in Edges :
        /\ n_call' = "check_vector_to_cylinder"
        /\ n_args' = [p0 |-> p0, p1 |-> p1, rad |-> r, ep0 |-> edge[1], ep1 |-> edge[2]]
        /\ n_out' = check_vector_to_cylinder(p0, p1, r, edge[1], edge[2])

\* object_movement_AABB (lines 299-311); finder is the IntersectionFinder.
object_movement_AABB(finder, obj) ==
    ~ ( \/ obj.max_xzy.x < finder.min_xyz.x
        \/ finder.max_xyz.x < obj.min_xzy.x
        \/ obj.max_xzy.z < finder.min_xyz.z
        \/ finder.max_xyz.z < obj.min_xzy.z
        \/ obj.max_xzy.y < finder.min_xyz.y
        \/ finder.max_xyz.y < obj.min_xzy.y )

\* room_movement_AABB (lines 313-325).
room_movement_AABB(finder, face) ==
    ~ ( \/ finder.wall_max_xyz.y < face.min_xyz.y
        \/ face.max_xyz.y < finder.wall_min_xyz.y
        \/ finder.wall_max_xyz.x < face.min_xyz.x
        \/ face.max_xyz.x < finder.wall_min_xyz.x
        \/ finder.wall_max_xyz.z < face.min_xyz.z
        \/ face.max_xyz.z < finder.wall_min_xyz.z )

\* object_object_AABB (lines 1405-1418).
object_object_AABB(a, b) ==
    ~ ( \/ a.max_xzy.x < b.min_xzy.x
        \/ b.max_xzy.x < a.min_xzy.x
        \/ a.max_xzy.z < b.min_xzy.z
        \/ b.max_xzy.z < a.min_xzy.z
        \/ a.max_xzy.y < b.min_xzy.y
        \/ b.max_xzy.y < a.min_xzy.y )

\* object_room_AABB (lines 1420-1432); the first test reads face.min_xyz.z.
object_room_AABB(obj, face) ==
    ~ ( \/ obj.max_xzy.y < face.min_xyz.z
        \/ face.max_xyz.y < obj.min_xzy.y
        \/ obj.max_xzy.x < face.min_xyz.x
        \/ face.max_xyz.x < obj.min_xzy.x
        \/ obj.max_xzy.z < face.min_xyz.z
        \/ face.max_xyz.z < obj.min_xzy.z )

\* The boxes explored: on each axis one of three ranges.
Ranges == {<<0, 1>>, <<1, 2>>, <<3, 4>>}
Boxes ==
    {[min |-> Vec(rx[1], ry[1], rz[1]), max |-> Vec(rx[2], ry[2], rz[2])] :
        rx \in Ranges, ry \in Ranges, rz \in Ranges}
AsObject(box) == [min_xzy |-> box.min, max_xzy |-> box.max]
AsFace(box) == [min_xyz |-> box.min, max_xyz |-> box.max]
AsFinder(box) ==
    [min_xyz |-> box.min, max_xyz |-> box.max,
     wall_min_xyz |-> box.min, wall_max_xyz |-> box.max]
AABBPredicates ==
    {"object_object_AABB", "object_room_AABB", "room_manual_AABB",
     "room_movement_AABB", "object_movement_AABB"}

\* The predicate named which, applied to the boxes a and b.
ApplyAABB(which, a, b) ==
    CASE which = "object_object_AABB" -> object_object_AABB(AsObject(a), AsObject(b))
      [] which = "object_room_AABB" -> object_room_AABB(AsObject(a), AsFace(b))
      [] which = "room_manual_AABB" -> room_manual_AABB(AsFace(b), a.min, a.max)
      [] which = "room_movement_AABB" -> room_movement_AABB(AsFinder(a), AsFace(b))
      [] which = "object_movement_AABB" -> object_movement_AABB(AsFinder(a), AsObject(b))

AABB ==
    /\ n_call = "none"
    /\ \E which \in AABBPredicates, a \in Boxes, b \in Boxes :
        /\ n_call' = which
        /\ n_args' = [a |-> a, b |-> b]
        /\ n_out' = [result |-> ApplyAABB(which, a, b)]

\* MovementType (object_dynamic_behavior.rs): Physical with a velocity, or
\* another kind.
Physical(velocity) == [kind |-> "Physical", velocity |-> velocity]
AtRest == [kind |-> "AtRest"]

\* The condition of lines 1352-1357: && binds tighter than ||.
UsesAnimSphere(class, drawable) ==
    \/ (is_some(drawable) /\ class # Powerup /\ class # Weapon)
    \/ class # Debris
    \/ class # Room
    \/ class # Player

\* The relative-velocity rejection of lines 1366-1398.
MovingApart(this_obj, still_object, still_pos) ==
    /\ is_some(this_obj)
    /\ is_some(still_object.movement)
    /\ is_some(unwrap(this_obj).movement)
    /\ unwrap(still_object.movement).kind = "Physical"
    /\ unwrap(unwrap(this_obj).movement).kind = "Physical"
    /\ still_object.class # Powerup
    /\ unwrap(this_obj).class # Powerup
    /\ dot(VSub(still_pos, unwrap(this_obj).position),
           VSub(unwrap(still_object.movement).velocity,
                unwrap(unwrap(this_obj).movement).velocity)) > 0

\* check_vector_to_object (lines 1335-1403). The CollisionMap is not read.
check_vector_to_object(this_obj, p0, p1, r, still_object, still_object_poly) ==
    LET anim == UsesAnimSphere(still_object.class, still_object.drawable)
        still_size == IF anim THEN unwrap(still_object_poly).anim_size
                      ELSE still_object.size
        still_pos == IF anim THEN VAdd(still_object.position, still_object.anim_sphere_offset)
                     ELSE still_object.position
    IN  IF anim /\ ~is_some(still_object_poly)
        THEN [status |-> "panicked", hit |-> FALSE, intp |-> None, col_dist |-> None]
        ELSE IF MovingApart(this_obj, still_object, still_pos)
        THEN [status |-> "returned"] @@ SphereMiss
        ELSE [status |-> "returned"]
             @@ check_vector_to_sphere(p0, p1, still_pos, still_size + r, FALSE, TRUE)

\* The objects and motions explored.
ObjectPoints == {Vec(x, 0, 0) : x \in (0 - 3)..3} \cup {Vec(0, 1, 0), Vec(2, 2, 0)}
Movements == {None, Some(AtRest), Some(Physical(Vec(1, 0, 0))), Some(Physical(Vec(0 - 1, 0, 0)))}
StillObjects ==
    {[class |-> c, drawable |-> dr, position |-> Vec(0, 0, 0),
      anim_sphere_offset |-> off, size |-> 1, movement |-> m] :
        c \in {Powerup, Robot}, dr \in {None, Some("drawable")},
        off \in {Vec(0, 0, 0), Vec(1, 0, 0)}, m \in Movements}
MovingObjects ==
    {None} \cup
    {Some([class |-> c, position |-> Vec(0 - 3, 0, 0), movement |-> m]) :
        c \in {Powerup, Robot}, m \in {None, Some(Physical(Vec(1, 0, 0)))}}
PolyModels == {None, Some([anim_size |-> 1])}

VectorToObject ==
    /\ n_call = "none"
    /\ \E this_obj \in MovingObjects, p0 \in ObjectPoints, p1 \in ObjectPoints,
          r \in 0..1, still_object \in StillObjects, still_object_poly \in PolyModels :
        /\ n_call' = "check_vector_to_object"
        /\ n_args' = [this_obj |-> this_obj, p0 |-> p0, p1 |-> p1, rad |-> r,
                      still_object |-> still_object,
                      still_object_poly |-> still_object_poly]
        /\ n_out' = check_vector_to_object(this_obj, p0, p1, r, still_object,
                                           still_object_poly)

\* find_intersection (lines 758-760): the body is todo!(), which panics
\* whatever the query.
find_intersection(query) == [status |-> "panicked", hit_type |-> None]

\* The queries explored, in a world with nothing to hit.
Queries == {[p0 |-> p0, p1 |-> p1, rad |-> r] :
               p0 \in ObjectPoints, p1 \in ObjectPoints, r \in 0..1}

FindIntersection ==
    /\ n_call = "none"
    /\ \E query \in Queries :
        /\ n_call' = "find_intersection"
        /\ n_args' = [query |-> query]
        /\ n_out' = find_intersection(query)

--------------------------------------------------------------------------
(* check_sphere_to_face and compute_movement_AABB (intersection.rs).       *)

\* Vector::distance (math/mod.rs:175-177), squared, of two points given as
\* exact fractions.
distance_squared(a, b) == RDot(RVSub(a, b), RVSub(a, b))

\* The edge loop of check_sphere_to_face (lines 1222-1236) from edgenum on;
\* out carries hit, c_end and the values left in the &mut parameters; intp
\* and colp are None as long as no edge test has written them.
RECURSIVE SphereEdges(_, _, _, _, _, _, _)
SphereEdges(p0, nv, r, vector_list, edgenum, edgemask, out) ==
    IF edgenum >= nv THEN out
    ELSE IF edgemask % 2 = 0
    THEN SphereEdges(p0, nv, r, vector_list, edgenum + 1, edgemask \div 2, out)
    ELSE
    LET v0 == At(vector_list, edgenum)
        v1 == At(vector_list, (edgenum + 1) % nv)
        edge == check_vector_to_cylinder(p0, out.c_end, r, v0, v1)
    IN  IF edge.status # "returned"
        THEN [out EXCEPT !.status = "panicked"]
        ELSE IF edge.hit
        THEN SphereEdges(p0, nv, r, vector_list, edgenum + 1, edgemask \div 2,
                         [out EXCEPT !.hit = TRUE,
                                     !.c_end = unwrap(edge.intp),
                                     !.intp = edge.intp,
                                     !.colp = edge.colp,
                                     !.col_dist_squared = Some(RInt(0)),
                                     !.wall_norm = edge.wall_norm])
        ELSE SphereEdges(p0, nv, r, vector_list, edgenum + 1, edgemask \div 2, out)

\* check_sphere_to_face (lines 1185-1240); col_dist is given by its square,
\* intp (the point on the plane) as exact fractions.
check_sphere_to_face(colp, intp, p0, p1, face_normal, nv, r, vector_list) ==
    LET edgemask == check_point_to_face(colp, face_normal, nv, vector_list)
        blank == [status |-> "returned", hit |-> FALSE, edgemask |-> edgemask,
                  c_end |-> p1, intp |-> None, colp |-> None,
                  col_dist_squared |-> None, wall_norm |-> None]
    IN  IF ~(nv <= 32) THEN [blank EXCEPT !.status = "panicked"]
        ELSE IF edgemask = 0
        THEN [blank EXCEPT !.hit = TRUE,
                           !.col_dist_squared = Some(distance_squared(RVec(p0), intp)),
                           !.wall_norm = Some(face_normal)]
        ELSE IF r = 0 THEN blank
        ELSE SphereEdges(p0, nv, r, vector_list, 0, edgemask, blank)

\* The faces and motions explored: the square and the triangle at two
\* places, the motion between points around them.
SphereFaces == {face \in Faces : face.verts[1] \in {Vec(0, 0, 0), Vec(0 - 1, 0 - 1, 0 - 1),
                                                     Vec(0, 2, 0), Vec(0 - 1, 1, 0 - 1)}}
SphereStarts == {Vec(x, y, z) : x \in {0 - 1, 1}, y \in {0 - 2, 1}, z \in {0, 2}}
SphereEnds == {Vec(1, 1, 0), Vec(1, 0 - 1, 0 - 1)}

SphereToFace ==
    /\ n_call = "none"
    /\ \E face \in SphereFaces, p0 \in SphereStarts \cup {Vec(0 - 1, 0 - 1, 0 - 1)},
          p1 \in SphereEnds, intp \in SphereEnds, r \in Radii \cup {0 - 1} :
        /\ n_call' = "check_sphere_to_face"
        /\ n_args' = [colp |-> VSub(intp, mul_scalar(face.normal, r)), intp |-> intp,
                      p0 |-> p0, p1 |-> p1, face_normal |-> face.normal,
                      nv |-> Len(face.verts), rad |-> r, vector_list |-> face.verts]
        /\ n_out' = check_sphere_to_face(VSub(intp, mul_scalar(face.normal, r)),
                                         RVec(intp), p0, p1, face.normal,
                                         Len(face.verts), r, face.verts)

\* check_line_to_face (lines 1246-1296). The loop of lines 1264-1271 compares
\* the addresses of the locals test and vec_ref, which the build fixes:
\* test_above tells that test lies above vec_ref, and then the loop ends on
\* the last vertex. newp and colp are None when nothing was written to them.
check_line_to_face(p0, p1, face_normal, vector_list, nv, r, test_above) ==
    LET vertnum == IF test_above /\ nv > 0 THEN nv - 1 ELSE 0
        blank == [status |-> "returned", hit |-> FALSE, newp |-> None, colp |-> None,
                  col_dist_squared |-> None, wall_norm |-> None]
    IN  IF Len(vector_list) = 0 \/ ~(r >= 0) \/ nv > Len(vector_list)
        THEN [blank EXCEPT !.status = "panicked"]
        ELSE
        LET pli == find_plane_line_intersection(At(vector_list, vertnum), face_normal,
                                                p0, p1, r)
        IN  IF ~pli.hit
            THEN [blank EXCEPT !.status = pli.status, !.newp = pli.intp,
                               !.colp = pli.colp]
            ELSE
            LET face == check_sphere_to_face(unwrap(pli.colp), unwrap(pli.intp), p0, p1,
                                             face_normal, nv, r, vector_list)
            IN  [status |-> face.status,
                 hit |-> face.hit,
                 newp |-> IF is_some(face.intp) THEN Some(RVec(unwrap(face.intp)))
                          ELSE pli.intp,
                 colp |-> IF is_some(face.colp) THEN Some(RVec(unwrap(face.colp)))
                          ELSE pli.colp,
                 col_dist_squared |-> face.col_dist_squared,
                 wall_norm |-> face.wall_norm]

\* The motions explored end on, before and behind the planes of the faces;
\* a motion may have no length.
LineToFace ==
    /\ n_call = "none"
    /\ \E face \in SphereFaces, p0 \in Coordinates, p1 \in Coordinates, r \in 0..1,
          test_above \in BOOLEAN :
        /\ n_call' = "check_line_to_face"
        /\ n_args' = [p0 |-> p0, p1 |-> p1, face_normal |-> face.normal,
                      vector_list |-> face.verts, nv |-> Len(face.verts), rad |-> r,
                      test_above |-> test_above]
        /\ n_out' = check_line_to_face(p0, p1, face.normal, face.verts, Len(face.verts),
                                       r, test_above)

\* compute_movement_AABB (lines 243-297): the four boxes it leaves in the
\* finder. hit_data is the finder's Option<HitData> (its hit_point),
\* this_obj the query's object.
compute_movement_AABB(hit_data, zero_rad, p0, r, this_obj) ==
    IF ~is_some(hit_data)
    THEN [status |-> "panicked", min_xyz |-> None, max_xyz |-> None,
          wall_min_xyz |-> None, wall_max_xyz |-> None]
    ELSE
    LET delta_movement == VSub(unwrap(hit_data), p0)
        moved_max ==
            Vec(IF delta_movement.x > 0 THEN p0.x + delta_movement.x
                                        ELSE p0.x + delta_movement.x,
                IF delta_movement.y > 0 THEN p0.y + delta_movement.y
                                        ELSE p0.y + delta_movement.y,
                IF delta_movement.z > 0 THEN p0.z + delta_movement.z
                                        ELSE p0.z + delta_movement.z)
        offset_vec == Vec(r, r, r)
        object == unwrap(this_obj)
        max_offset == VSub(object.max_xzy, object.position)
        min_offset == VSub(object.min_xzy, object.position)
        box(lo, hi) == [status |-> "returned", min_xyz |-> Some(lo), max_xyz |-> Some(hi),
                        wall_min_xyz |-> Some(lo), wall_max_xyz |-> Some(hi)]
    IN  IF zero_rad THEN box(p0, moved_max)
        ELSE IF ~is_some(this_obj)
        THEN box(VSub(p0, offset_vec), VAdd(moved_max, offset_vec))
        ELSE box(VAdd(p0, min_offset), VAdd(moved_max, max_offset))

\* The movements explored: from two starts to the points around them, with
\* and without a hit recorded, a radius and an object of origin.
MovementStarts == {Vec(0, 0, 0), Vec(1, 2, 3)}
MovementDeltas == {Vec(x, y, z) : x \in {0 - 2, 0, 2}, y \in {0 - 1, 0, 3}, z \in {0 - 2, 0, 1}}
OriginObject(p0) ==
    [position |-> p0, min_xzy |-> VSub(p0, Vec(1, 1, 1)), max_xzy |-> VAdd(p0, Vec(1, 2, 1))]

ComputeMovementAABB ==
    /\ n_call = "none"
    /\ \E p0 \in MovementStarts, zero_rad \in BOOLEAN, r \in Radii :
        \E hit_data \in {None} \cup {Some(VAdd(p0, by)) : by \in MovementDeltas},
           this_obj \in {None, Some(OriginObject(p0))} :
            /\ n_call' = "compute_movement_AABB"
            /\ n_args' = [hit_data |-> hit_data, zero_rad |-> zero_rad, p0 |-> p0,
                          rad |-> r, this_obj |-> this_obj]
            /\ n_out' = compute_movement_AABB(hit_data, zero_rad, p0, r, this_obj)

--------------------------------------------------------------------------
(* OrderedNode, BinaryHeap<OrderedNode> and NodePath (game/node.rs).       *)

\* Bound on the costs pushed in the heap runs.
MaxHeapCost == 4

OrderedNode(node, parent_node, cost) ==
    [node |-> node, parent_node |-> parent_node, cost |-> cost]

\* A plausible slip: the comparison is not reversed.
cmp_Natural(self, other) ==
    IF self.cost < other.cost THEN "Less"
    ELSE IF self.cost = other.cost THEN "Equal" ELSE "Greater"

\* impl Ord for OrderedNode (lines 50-54): other.cost.partial_cmp(&self.cost).
cmp(self, other) ==
    IF other.cost < self.cost THEN "Less"
    ELSE IF other.cost = self.cost THEN "Equal" ELSE "Greater"

\* a <= b through PartialOrd (lines 56-60).
le(a, b) == cmp(a, b) \in {"Less", "Equal"}

\* BinaryHeap: the vector data is a max-heap under cmp. sift_up moves the
\* element at pos towards start.
RECURSIVE sift_up(_, _, _, _)
sift_up(data, start, pos, element) ==
    IF pos > start
    THEN LET parent == (pos - 1) \div 2
         IN  IF le(element, At(data, parent))
             THEN SetAt(data, pos, element)
             ELSE sift_up(SetAt(data, pos, At(data, parent)), start, parent, element)
    ELSE SetAt(data, pos, element)

\* sift_down_to_bottom: the hole goes down along the greater children to
\* the bottom, then the element is sifted up from there.
RECURSIVE sift_down_to_bottom(_, _, _, _)
sift_down_to_bottom(data, start, pos, element) ==
    LET end == Len(data)
        child == 2 * pos + 1
        greater == IF le(At(data, child), At(data, child + 1)) THEN child + 1 ELSE child
    IN  IF child <= saturating_sub(end, 2) /\ end >= 2
        THEN sift_down_to_bottom(SetAt(data, pos, At(data, greater)), start, greater, element)
        ELSE IF child = end - 1
        THEN sift_up(SetAt(data, pos, At(data, child)), start, child, element)
        ELSE sift_up(data, start, pos, element)

\* BinaryHeap::push and BinaryHeap::pop; pop gives the item (None when the
\* heap is empty) and the heap that is left.
heap_push(data, item) == sift_up(Append(data, item), 0, Len(data), item)

heap_pop(data) ==
    IF Len(data) = 0 THEN [item |-> None, data |-> data]
    ELSE IF Len(data) = 1 THEN [item |-> Some(data[1]), data |-> << >>]
    ELSE LET last == data[Len(data)]
             rest == SubSeq(data, 1, Len(data) - 1)
         IN  [item |-> Some(rest[1]),
              data |-> sift_down_to_bottom(rest, 0, 0, last)]

RECURSIVE PushAll(_, _, _)
PushAll(data, items, k) ==
    IF k > Len(items) THEN data ELSE PushAll(heap_push(data, items[k]), items, k + 1)

\* Pops until the heap answers None; the None closes the sequence.
RECURSIVE PopAll(_)
PopAll(data) ==
    LET popped == heap_pop(data)
    IN  IF popped.item = None THEN <<None>>
        ELSE <<popped.item>> \o PopAll(popped.data)

\* tests::test_ordered_nodes (lines 233-278), for any pushes.
test_ordered_nodes(items) == PopAll(PushAll(<< >>, items, 1))

\* The pushes explored: nodes of distinct costs, in every order.
RECURSIVE Orders(_)
Orders(costs) ==
    IF costs = {} THEN {<< >>}
    ELSE UNION {{<<c>> \o rest : rest \in Orders(costs \ {c})} : c \in costs}

HeapPushes ==
    UNION {{[k \in 1..Len(o) |-> OrderedNode(k, Some(k - 1), o[k])] : o \in Orders(costs)} :
           costs \in SUBSET (1..MaxHeapCost)}

HeapRun ==
    /\ n_call = "none"
    /\ \E items \in HeapPushes :
        /\ n_call' = "test_ordered_nodes"
        /\ n_args' = [pushes |-> items]
        /\ n_out' = [pops |-> test_ordered_nodes(items)]

\* NodeEdge (lines 10-16): the room it ends in, the node it ends at and
\* its cost. A node is the vector of its edges.
NodeEdge(end_room, end_index, cost) ==
    [end_room |-> end_room, end_index |-> end_index, cost |-> cost]

\* NodePath::update (lines 154-175): walks the parents back from the end
\* of the range, then reverses the vector in place.
RECURSIVE WalkParents(_, _)
WalkParents(nodes, current) ==
    IF is_some(current)
    THEN <<unwrap(current)>>
            \o WalkParents(nodes, unwrap(At(nodes, unwrap(current))).parent_node)
    ELSE << >>

RECURSIVE ReverseInPlace(_, _)
ReverseInPlace(nodes, i) ==
    IF i < Len(nodes) \div 2
    THEN LET j == Len(nodes) - i - 1
         IN  ReverseInPlace(SetAt(SetAt(nodes, i, At(nodes, j)), j, At(nodes, i)), i + 1)
    ELSE nodes

update(nodes, range_end) == ReverseInPlace(WalkParents(nodes, range_end), 0)

\* The edge loop of find_path (lines 99-135) from edge number counter on.
\* list_item_result is ordered_list[node_index], the entry of the node
\* being expanded (line 115).
RECURSIVE ExpandEdges(_, _, _, _, _, _)
ExpandEdges(node_list, start_room, cur_node, counter, ordered_list, path) ==
    LET node_index == cur_node.node
        edges == At(node_list, node_index)
    IN  IF counter >= Len(edges)
        THEN [status |-> "done", ordered_list |-> ordered_list, path |-> path]
        ELSE
        LET edge == At(edges, counter)
            next_node == edge.end_index
            cost == edge.cost
            new_cost == cur_node.cost + cost
            list_item_result == At(ordered_list, node_index)
            list_item == OrderedNode(next_node, Some(node_index), new_cost)
        IN  IF edge.end_room # start_room
            THEN ExpandEdges(node_list, start_room, cur_node, counter + 1, ordered_list, path)
            ELSE IF ~(cost > 0)
            THEN [status |-> "panicked", ordered_list |-> ordered_list, path |-> path]
            ELSE IF is_some(list_item_result) /\ unwrap(list_item_result).cost < new_cost
            THEN ExpandEdges(node_list, start_room, cur_node, counter + 1, ordered_list, path)
            ELSE IF ~is_some(list_item_result)
            THEN ExpandEdges(node_list, start_room, cur_node, counter + 1,
                             SetAt(ordered_list, next_node, Some(list_item)),
                             heap_push(path, list_item))
            ELSE ExpandEdges(node_list, start_room, cur_node, counter + 1,
                             SetAt(ordered_list, node_index,
                                   Some(OrderedNode(unwrap(list_item_result).node,
                                                    Some(cur_node.node), new_cost))),
                             path)

\* The while loop of find_path (lines 90-139).
RECURSIVE PathLoop(_, _, _, _, _, _, _)
PathLoop(node_list, start_room, i, j, current, ordered_list, path) ==
    IF ~is_some(current)
    THEN [status |-> "returned", found |-> FALSE, nodes |-> << >>]
    ELSE
    LET cur_node == unwrap(current)
        node_index == cur_node.node
        placed == SetAt(ordered_list, node_index, current)
    IN  IF node_index = j
        THEN [status |-> "returned", found |-> TRUE, nodes |-> update(placed, Some(j))]
        ELSE
        LET expanded == ExpandEdges(node_list, start_room, cur_node, 0, placed, path)
            popped == heap_pop(expanded.path)
        IN  IF expanded.status = "panicked"
            THEN [status |-> "panicked", found |-> FALSE, nodes |-> << >>]
            ELSE PathLoop(node_list, start_room, i, j, popped.item,
                          expanded.ordered_list, popped.data)

\* NodePath::find_path (lines 63-152) on a path whose nodes are empty: the
\* start node is pushed at cost 0 and popped at once.
find_path(node_list, start_room, i, j) ==
    IF ~(i < Len(node_list) /\ j < Len(node_list))
    THEN [status |-> "panicked", found |-> FALSE, nodes |-> << >>]
    ELSE LET popped == heap_pop(heap_push(<< >>, OrderedNode(i, None, 0)))
         IN  PathLoop(node_list, start_room, i, j, popped.item,
                      [k \in 1..Len(node_list) |-> None], popped.data)

\* The node lists explored: three nodes, each with at most one edge to
\* each other node; an edge costs 1 or 2 and ends in the start room, or
\* costs 1 and ends in another room.
NodeIds == 0..2

EdgesTo(k) ==
    {NodeEdge("start_room", k, 1), NodeEdge("start_room", k, 2), NodeEdge("other_room", k, 1)}

EdgeLists(n) ==
    LET a == (n + 1) % 3
        b == (n + 2) % 3
        lo == IF a < b THEN a ELSE b
        hi == IF a < b THEN b ELSE a
    IN  {<< >>} \cup {<<e>> : e \in EdgesTo(lo) \cup EdgesTo(hi)}
                \cup {<<e, f>> : e \in EdgesTo(lo), f \in EdgesTo(hi)}

NodeLists == {<<e0, e1, e2>> : e0 \in EdgeLists(0), e1 \in EdgeLists(1), e2 \in EdgeLists(2)}

FindPath ==
    /\ n_call = "none"
    /\ \E node_list \in NodeLists, i \in NodeIds, j \in NodeIds :
        /\ n_call' = "find_path"
        /\ n_args' = [node_list |-> node_list, i |-> i, j |-> j]
        /\ n_out' = find_path(node_list, "start_room", i, j)

--------------------------------------------------------------------------
(* IntersectionFinder::quick_dist_cell_list (intersection.rs): the walk of *)
(* process_cells with the collecting visitor, as one function.             *)

\* Bound on the length of quick_cell_list.
MaxListLen == 2

\* terrain.segments[k].y of a terrain that is flat at base but for one
\* peak; the vector holds one segment per cell of the grid.
SegmentY(terrain, k) == IF k = terrain.peak_at THEN terrain.peak ELSE terrain.base
SegmentInBounds(k) == k < TERRAIN_WIDTH * TERRAIN_DEPTH

\* The four corners read by the visitor, in the order of the || chain
\* (lines 498-501).
CellCorners(node) ==
    <<node, node + TERRAIN_WIDTH + 1, node + 1, node + TERRAIN_WIDTH>>

\* The || chain from corner k on: "true", "false", or "panicked" when a
\* corner that is read lies outside segments.
RECURSIVE CornerReaches(_, _, _, _)
CornerReaches(terrain, node, threshold, k) ==
    IF k > 4 THEN "false"
    ELSE IF ~SegmentInBounds(CellCorners(node)[k]) THEN "panicked"
    ELSE IF SegmentY(terrain, CellCorners(node)[k]) >= threshold THEN "true"
    ELSE CornerReaches(terrain, node, threshold, k + 1)

\* The visitor of quick_dist_cell_list (lines 496-513) on current_node;
\* list is quick_cell_list and count is num_cells.
CollectCell(terrain, position_y, cell_radius, node, list, count) ==
    LET reaches == CornerReaches(terrain, node, position_y - cell_radius, 1)
    IN  IF reaches = "panicked"
        THEN [answer |-> "panicked", panic |-> "segments", list |-> list, count |-> count]
        ELSE IF reaches = "true"
        THEN IF ~(count < Len(list))
             THEN [answer |-> "panicked", panic |-> "quick_cell_list",
                   list |-> list, count |-> count]
             ELSE [answer |-> IF count + 1 >= Len(list) THEN "false" ELSE "true",
                   panic |-> "none", list |-> SetAt(list, count, node), count |-> count + 1]
        ELSE [answer |-> "true", panic |-> "none", list |-> list, count |-> count]

\* The two loops of process_cells (lines 1476-1485) from row y, column x
\* on; a false answer leaves the row only.
RECURSIVE CollectWalk(_, _, _, _, _, _, _, _, _)
CollectWalk(terrain, position_y, cell_radius, window, y, x, node, list, count) ==
    IF y > window.y_end
    THEN [status |-> "returned", panic |-> "none", quick_cell_list |-> list,
          num_cells |-> count]
    ELSE IF x > window.x_end
    THEN CollectWalk(terrain, position_y, cell_radius, window, y + 1, window.x_start,
                     node + window.next_y_delta, list, count)
    ELSE LET said == CollectCell(terrain, position_y, cell_radius, node, list, count)
         IN  IF said.answer = "panicked"
             THEN [status |-> "panicked", panic |-> said.panic, quick_cell_list |-> list,
                   num_cells |-> count]
             ELSE IF said.answer = "false"
             THEN CollectWalk(terrain, position_y, cell_radius, window, y + 1,
                              window.x_start, node + window.next_y_delta,
                              said.list, said.count)
             ELSE CollectWalk(terrain, position_y, cell_radius, window, y, x + 1,
                              node + 1, said.list, said.count)

\* quick_dist_cell_list (lines 480-518) for a whole radius; the list comes
\* in zeroed. debug_assert!(rad >= 0.0) (line 487) is compiled in the debug
\* build only.
quick_dist_cell_list(cell, position_y, cell_radius, quick_cell_list, terrain, debug) ==
    LET check == PlusOneWrapping(QuotientAsUsize(F32(cell_radius)))
        window == [x_start |-> XStart(cell, check), x_end |-> XEnd(cell, check),
                   y_start |-> YStart(cell, check), y_end |-> YEnd(cell, check),
                   next_y_delta |-> NextYDelta(XStart(cell, check), XEnd(cell, check))]
    IN  IF debug /\ ~(cell_radius >= 0)
        THEN [status |-> "panicked", panic |-> "rad", quick_cell_list |-> quick_cell_list,
              num_cells |-> 0]
        ELSE CollectWalk(terrain, position_y, cell_radius, window, window.y_start,
                         window.x_start, TERRAIN_WIDTH * window.y_start + window.x_start,
                         quick_cell_list, 0)

Terrains(cell) == {[base |-> 0, peak_at |-> cell, peak |-> h] : h \in {0, 50}}

QuickDistCellList ==
    /\ n_call = "none"
    /\ \E cell \in CornerCells \cup InnerCells, position_y \in {0, 40},
          cell_radius \in {0 - 1, 0, 16}, len \in 0..MaxListLen :
        \E terrain \in Terrains(cell), debug \in BOOLEAN :
            /\ n_call' = "quick_dist_cell_list"
            /\ n_args' = [initial_cell |-> cell, position_y |-> position_y,
                          rad |-> cell_radius, len |-> len, terrain |-> terrain,
                          debug |-> debug]
            /\ n_out' = quick_dist_cell_list(cell, position_y, cell_radius,
                                             [k \in 1..len |-> 0], terrain, debug)

--------------------------------------------------------------------------
(* Terrain::deform_point (game/terrain.rs). The terrain is given by the    *)
(* byte-height of the deformed cell and by min/max tables that hold the    *)
(* same pair of values in every entry; the result names what changed.      *)

\* v - 1 in usize: with overflow checks 0 - 1 panics, without them it wraps
\* to usize::MAX (wrapped); .max(0) leaves a usize as it is.
MinusOne(v) == [wrapped |-> v = 0, v |-> IF v = 0 THEN 0 ELSE v - 1]

\* The range from..=to of the loops, empty when from wrapped to usize::MAX.
RangeInclusive(from, to) == IF from.wrapped THEN {} ELSE from.v..to

\* change_height.min(255).max(0) (line 673).
ClampHeight(h) == max(min(h, 255), 0)

\* The entry of table i that the loop of lines 683-697 reaches from the
\* cell (k, t).
MinMaxOffset(i, t, k) ==
    LET row_width == 2 ^ i
        div == 256 \div (2 ^ i)
    IN  ((t \div div) * row_width) + (k \div div)

\* The segment indices read for the normals of the cell (t, i) (lines
\* 704-707); the cells are taken row by row and the four reads of a cell
\* come before its normals are written.
NormalReads(i, t) ==
    {i * TERRAIN_WIDTH + t, (i + 1) * TERRAIN_WIDTH + t,
     ((i + 1) * TERRAIN_WIDTH) + t + 1, (i * TERRAIN_WIDTH) + t + 1}

\* deform_point (lines 669-758). y is the height in 255ths of a world unit
\* times 350 (TERRAIN_HEIGHT_INCREMENT = 350 / 255). The table entries are
\* taken turn by turn up to the first index past the end of a table (line
\* 690); the normals are taken cell by cell up to the first bad read.
deform_point(x, z, change_height, y_scalar, table_min, table_max, checks) ==
    LET new_height == ClampHeight(change_height + y_scalar)
        sx == MinusOne(x)
        sz == MinusOne(z)
        rows == RangeInclusive(sz, z)
        columns == RangeInclusive(sx, x)
        \* the turns <<i, t, k>> of the loops of lines 682-687, in their order
        turns == {<<i, t, k>> : i \in 0..6, t \in rows, k \in columns}
        before(a, b) == \/ a[1] < b[1]
                        \/ a[1] = b[1] /\ a[2] < b[2]
                        \/ a[1] = b[1] /\ a[2] = b[2] /\ a[3] < b[3]
        \* table i holds (1 << i) * (1 << i) entries (init_min_max, lines 534-543)
        past == {a \in turns :
                    ~(MinMaxOffset(a[1], a[2], a[3]) < (2 ^ a[1]) * (2 ^ a[1]))}
        reached == {<<a[1], MinMaxOffset(a[1], a[2], a[3])>> :
                       a \in {c \in turns : \A b \in past : before(c, b)}}
        written == [status |-> "returned",
                    y_scalar |-> new_height,
                    y |-> Rat(new_height * 350, 255),
                    heights_changed |-> IF new_height # y_scalar
                                        THEN {z * TERRAIN_WIDTH + x} ELSE {},
                    max_changed |-> {}, min_changed |-> {}, normals_written |-> {}]
    IN  IF ~SegmentInBounds(z * TERRAIN_WIDTH + x)
        THEN [written EXCEPT !.status = "panicked", !.y_scalar = y_scalar,
                             !.y = Rat(y_scalar * 350, 255), !.heights_changed = {}]
        ELSE IF checks /\ (sx.wrapped \/ sz.wrapped)
        THEN [written EXCEPT !.status = "panicked"]
        ELSE
        LET tables == [written EXCEPT
                          !.max_changed = IF new_height > table_max THEN reached ELSE {},
                          !.min_changed = IF new_height < table_min THEN reached ELSE {}]
            cells == {i * TERRAIN_WIDTH + t : i \in rows, t \in columns}
            bad == {c \in cells :
                       \E k \in NormalReads(c \div TERRAIN_WIDTH, c % TERRAIN_WIDTH) :
                           ~SegmentInBounds(k)}
        IN  IF past # {}
            THEN [tables EXCEPT !.status = "panicked"]
            ELSE IF bad # {}
            THEN [tables EXCEPT
                     !.status = "panicked",
                     !.normals_written = {c \in cells : \A b \in bad : c < b}]
            ELSE [tables EXCEPT !.normals_written = cells]

\* The deformations explored: cells at the corners, on the borders and
\* inside the grid.
DeformAxis == {0, 1, 128, TERRAIN_WIDTH - 2, TERRAIN_WIDTH - 1}
\* Columns past the end of a row: z * TERRAIN_WIDTH + x is the segment of a
\* later row.
DeformPastRow == {TERRAIN_WIDTH, 300}
DeformHeights == {0, 100, 250}
DeformChanges == {0, 1, 10, 255}
DeformTables == {<<0, 0>>, <<0, 255>>, <<120, 200>>}

DeformPoint ==
    /\ n_call = "none"
    /\ \E x \in DeformAxis \cup DeformPastRow, z \in DeformAxis, change_height \in DeformChanges,
          y_scalar \in DeformHeights, table \in DeformTables, checks \in BOOLEAN :
        /\ n_call' = "deform_point"
        /\ n_args' = [x |-> x, z |-> z, change_height |-> change_height,
                      y_scalar |-> y_scalar, min_heights |-> table[1],
                      max_heights |-> table[2], overflow_checks |-> checks]
        /\ n_out' = deform_point(x, z, change_height, y_scalar, table[1], table[2], checks)

--------------------------------------------------------------------------
(* Doorway (game/door.rs) and do_frame_doorways (game/core.rs). The        *)
(* doorway is bound in context.doorways; an assigned room has its door     *)
(* data. Times are whole seconds; positions are exact fractions.           *)

\* Bound on the number of operations applied to the doorway.
MaxDoorOps == 3

FrameTimes == {1, 2}

RLt(p, q) == p.n * q.d < q.n * p.d

\* The doorways explored: Doorway::default() (Stopped, AUTO, position 0,
\* no door, no room, no sound handle) and the doorways a level holds with a
\* door and a room assigned, without AUTO, blasted, open, or with the handle
\* () of a sound; the fields are all pub.
DoorOff ==
    /\ doorway_state = "Stopped"
    /\ doorway_flags = {}
    /\ is_active = FALSE
    /\ doorway_position = RInt(0)
    /\ dest_pos = RInt(0)
    /\ door = None
    /\ assigned_room = None
    /\ door_obj_linked = FALSE
    /\ sound_handle = None
    /\ frame_status = "off"
    /\ history = << >>

DoorInit ==
    /\ doorway_state = "Stopped"
    /\ doorway_flags \in {{"AUTO"}, {}, {"AUTO", "BLASTED"}}
    /\ is_active = FALSE
    /\ doorway_position \in {RInt(0), RInt(1)}
    /\ dest_pos = doorway_position
    /\ door \in {None} \cup {Some(d) : d \in [total_time_open : {1, 2},
                                              total_close_time : {1, 2}]}
    /\ assigned_room \in {None, Some("room")}
    /\ door_obj_linked \in IF is_some(assigned_room) THEN BOOLEAN ELSE {FALSE}
    /\ sound_handle \in {None, Some(<< >>)}
    /\ frame_status = "running"
    /\ history = << >>

is_blasted == "BLASTED" \in doorway_flags

\* An operation is applied while the program runs.
Operated(name) ==
    /\ frame_status = "running"
    /\ Len(history) < MaxDoorOps
    /\ history' = Append(history, name)

\* update_doorway_animation (core.rs:25-28) and GameBoundedType<Doorway>::
\* play_sound (door.rs:198-200) are todo!().
NotYetImplemented == "not yet implemented"
update_doorway_animation == NotYetImplemented
play_sound == NotYetImplemented

\* Doorway::set_lock_state (lines 120-126).
SetLockState ==
    /\ Operated("set_lock_state")
    /\ \E value \in BOOLEAN :
        doorway_flags' = IF value THEN doorway_flags \cup {"LOCKED"}
                                  ELSE doorway_flags \ {"LOCKED"}
    /\ UNCHANGED <<doorway_state, is_active, doorway_position, dest_pos, door,
                   assigned_room, door_obj_linked, sound_handle, frame_status>>

\* Doorway::set_position (lines 136-150).
set_position(to) ==
    /\ dest_pos' = to
    /\ IF doorway_position = to
       THEN UNCHANGED <<doorway_state, is_active>>
       ELSE /\ doorway_state' = IF RLt(doorway_position, to) THEN "Opening" ELSE "Closing"
            /\ is_active' = TRUE

\* The private methods set_position, stop and activate, each taken as a
\* step of its own, as code of the module door can call them.
SetPosition ==
    /\ Operated("set_position")
    /\ \E to \in {RInt(0), Rat(1, 2), RInt(1)} : set_position(to)
    /\ UNCHANGED <<doorway_flags, doorway_position, door, assigned_room,
                   door_obj_linked, sound_handle, frame_status>>

\* Doorway::stop (lines 152-155).
Stop ==
    /\ Operated("stop")
    /\ dest_pos' = doorway_position
    /\ doorway_state' = "Stopped"
    /\ UNCHANGED <<doorway_flags, is_active, doorway_position, door, assigned_room,
                   door_obj_linked, sound_handle, frame_status>>

\* Doorway::activate (lines 157-179).
Activate ==
    /\ Operated("activate")
    /\ IF is_blasted \/ doorway_state \in {"Opening", "Waiting", "OpeningAuto"}
       THEN UNCHANGED <<dest_pos, doorway_state, is_active>>
       ELSE /\ dest_pos' = RInt(1)
            /\ doorway_state' = IF "AUTO" \in doorway_flags THEN "OpeningAuto" ELSE "Opening"
            /\ is_active' = TRUE
    /\ UNCHANGED <<doorway_flags, doorway_position, door, assigned_room,
                   door_obj_linked, sound_handle, frame_status>>

\* GameBoundedType<Doorway>::activate_with_sound_fx_and_trigger_event (lines
\* 182-196): it returns on a blasted doorway and otherwise calls play_sound;
\* Doorway::activate is not called.
ActivateWithSoundFxAndTriggerEvent ==
    /\ Operated("activate_with_sound_fx_and_trigger_event")
    /\ frame_status' = IF is_blasted THEN frame_status ELSE play_sound
    /\ UNCHANGED <<doorway_state, doorway_flags, is_active, doorway_position, dest_pos,
                   door, assigned_room, door_obj_linked, sound_handle>>

\* GameBoundedType<Doorway>::set_position_with_sound_fx (lines 202-208):
\* set_position, then the argument todo!() of play_sound.
SetPositionWithSoundFx ==
    /\ Operated("set_position_with_sound_fx")
    /\ \E to \in {RInt(0), Rat(1, 2), RInt(1)} : set_position(to)
    /\ frame_status' = NotYetImplemented
    /\ UNCHANGED <<doorway_flags, doorway_position, door, assigned_room,
                   door_obj_linked, sound_handle>>

\* GameBoundedType<Doorway>::stop_with_sound_fx (lines 210-218): the handle
\* is unwrapped for the audio system of the context, then is_active is
\* cleared; Doorway::stop is not called.
StopWithSoundFx ==
    /\ Operated("stop_with_sound_fx")
    /\ IF sound_handle = None
       THEN /\ frame_status' = "called Option::unwrap() on a None value"
            /\ UNCHANGED is_active
       ELSE /\ is_active' = FALSE
            /\ UNCHANGED frame_status
    /\ UNCHANGED <<doorway_state, doorway_flags, doorway_position, dest_pos, door,
                   assigned_room, door_obj_linked, sound_handle>>

\* The Opening | OpeningAuto arm (lines 51-70), up to the end of the match;
\* delta is computed and not used.
OpeningArm ==
    /\ IF RLe(dest_pos, doorway_position)
       THEN /\ doorway_position' = dest_pos
            /\ IF doorway_state = "OpeningAuto"
               THEN /\ doorway_state' = "Waiting"
                    /\ dest_pos' = RInt(unwrap(door).total_time_open)
                    /\ UNCHANGED is_active
               ELSE /\ doorway_state' = "Stopped"
                    /\ is_active' = FALSE
                    /\ UNCHANGED dest_pos
       ELSE UNCHANGED <<doorway_position, doorway_state, dest_pos, is_active>>
    /\ frame_status' = update_doorway_animation

\* The Closing arm (lines 71-89).
ClosingArm(frametime) ==
    LET delta == Rat(frametime, unwrap(door).total_close_time)
        lowered == RSub(doorway_position, delta)
    IN  /\ IF RLe(lowered, dest_pos)
           THEN /\ doorway_position' = dest_pos
                /\ doorway_state' = "Stopped"
           ELSE /\ doorway_position' = lowered
                /\ UNCHANGED doorway_state
        /\ UNCHANGED <<dest_pos, is_active>>
        /\ frame_status' = update_doorway_animation

\* The Waiting arm (lines 90-105).
WaitingArm(frametime) ==
    LET waited == RSub(dest_pos, RInt(frametime))
    IN  IF RLe(waited, RInt(0)) /\ ~door_obj_linked
        THEN /\ dest_pos' = RInt(0)
             /\ doorway_state' = "Closing"
             /\ frame_status' = play_sound
             /\ UNCHANGED <<doorway_position, is_active>>
        ELSE /\ dest_pos' = waited
             /\ frame_status' = update_doorway_animation
             /\ UNCHANGED <<doorway_position, doorway_state, is_active>>

\* do_frame_doorways (lines 31-117) on the doorway. A doorway that is not
\* active is skipped; nothing is removed then.
DoFrameDoorways ==
    /\ Operated("do_frame_doorways")
    /\ \E frametime \in FrameTimes :
        IF ~is_active
        THEN UNCHANGED <<doorway_state, is_active, doorway_position, dest_pos, frame_status>>
        ELSE IF ~is_some(door)
        THEN \* doorway.assigned_door.as_ref().unwrap() (line 42)
             /\ frame_status' = "called Option::unwrap() on a None value"
             /\ UNCHANGED <<doorway_state, is_active, doorway_position, dest_pos>>
        ELSE IF ~is_some(assigned_room)
        THEN \* assert_eq!(doorway.assigned_room.is_none(), false) (line 45)
             /\ frame_status' = "assertion left == right failed"
             /\ UNCHANGED <<doorway_state, is_active, doorway_position, dest_pos>>
        ELSE IF doorway_state \in {"Opening", "OpeningAuto"} THEN OpeningArm
        ELSE IF doorway_state = "Closing" THEN ClosingArm(frametime)
        ELSE IF doorway_state = "Waiting" THEN WaitingArm(frametime)
        ELSE /\ frame_status' = "stopped doorstate is not allowed"
             /\ UNCHANGED <<doorway_state, is_active, doorway_position, dest_pos>>
    /\ UNCHANGED <<doorway_flags, door, assigned_room, door_obj_linked, sound_handle>>

--------------------------------------------------------------------------
(* Specifications.                                                         *)

\* The CollisionMap alone.
Init == CollideInit /\ FacelistOff /\ CellsOff /\ NarrowOff /\ DoorOff

Next ==
    \/ Default /\ UNCHANGED <<facelistVars, cellVars, narrowVars, doorVars>>
    \/ EnableDisable /\ UNCHANGED <<facelistVars, cellVars, narrowVars, doorVars>>

Spec == Init /\ [][Next]_vars

\* The broad-phase room search on a level.
InitFacelist == CollideInit /\ FacelistInit /\ CellsOff /\ NarrowOff /\ DoorOff

NextFacelist ==
    \/ Query /\ UNCHANGED <<collideVars, cellVars, narrowVars, doorVars>>
    \/ ProcessRoom /\ UNCHANGED <<collideVars, cellVars, narrowVars, doorVars>>
    \/ Return /\ UNCHANGED <<collideVars, cellVars, narrowVars, doorVars>>

SpecFacelist == InitFacelist /\ [][NextFacelist]_vars

\* The terrain window walk.
InitCells == CollideInit /\ FacelistOff /\ CellsInit /\ NarrowOff /\ DoorOff

NextCells ==
    \/ Search /\ UNCHANGED <<collideVars, facelistVars, narrowVars, doorVars>>
    \/ Visit /\ UNCHANGED <<collideVars, facelistVars, narrowVars, doorVars>>
    \/ ReturnCells /\ UNCHANGED <<collideVars, facelistVars, narrowVars, doorVars>>

SpecCells == InitCells /\ [][NextCells]_vars

\* The narrow-phase functions, each called on every input explored.
InitNarrow == CollideInit /\ FacelistOff /\ CellsOff /\ NarrowInit /\ DoorOff

NextNarrow ==
    \/ PlaneLine /\ UNCHANGED <<collideVars, facelistVars, cellVars, doorVars>>
    \/ PointToFace /\ UNCHANGED <<collideVars, facelistVars, cellVars, doorVars>>
    \/ VectorToSphere /\ UNCHANGED <<collideVars, facelistVars, cellVars, doorVars>>
    \/ VectorToCylinder /\ UNCHANGED <<collideVars, facelistVars, cellVars, doorVars>>
    \/ AABB /\ UNCHANGED <<collideVars, facelistVars, cellVars, doorVars>>
    \/ VectorToObject /\ UNCHANGED <<collideVars, facelistVars, cellVars, doorVars>>
    \/ FindIntersection /\ UNCHANGED <<collideVars, facelistVars, cellVars, doorVars>>
    \/ HeapRun /\ UNCHANGED <<collideVars, facelistVars, cellVars, doorVars>>
    \/ FindPath /\ UNCHANGED <<collideVars, facelistVars, cellVars, doorVars>>
    \/ QuickDistCellList /\ UNCHANGED <<collideVars, facelistVars, cellVars, doorVars>>
    \/ SphereToFace /\ UNCHANGED <<collideVars, facelistVars, cellVars, doorVars>>
    \/ LineToFace /\ UNCHANGED <<collideVars, facelistVars, cellVars, doorVars>>
    \/ ComputeMovementAABB /\ UNCHANGED <<collideVars, facelistVars, cellVars, doorVars>>
    \/ DeformPoint /\ UNCHANGED <<collideVars, facelistVars, cellVars, doorVars>>
    \/ NarrowReturn /\ UNCHANGED <<collideVars, facelistVars, cellVars, doorVars>>

SpecNarrow == InitNarrow /\ [][NextNarrow]_vars

\* A doorway of the mine, operated and updated frame after frame.
InitDoor == CollideInit /\ FacelistOff /\ CellsOff /\ NarrowOff /\ DoorInit

NextDoor ==
    \/ Activate /\ UNCHANGED <<collideVars, facelistVars, cellVars, narrowVars>>
    \/ SetPosition /\ UNCHANGED <<collideVars, facelistVars, cellVars, narrowVars>>
    \/ Stop /\ UNCHANGED <<collideVars, facelistVars, cellVars, narrowVars>>
    \/ DoFrameDoorways /\ UNCHANGED <<collideVars, facelistVars, cellVars, narrowVars>>
    \/ SetLockState /\ UNCHANGED <<collideVars, facelistVars, cellVars, narrowVars>>
    \/ ActivateWithSoundFxAndTriggerEvent
           /\ UNCHANGED <<collideVars, facelistVars, cellVars, narrowVars>>
    \/ SetPositionWithSoundFx /\ UNCHANGED <<collideVars, facelistVars, cellVars, narrowVars>>
    \/ StopWithSoundFx /\ UNCHANGED <<collideVars, facelistVars, cellVars, narrowVars>>

SpecDoor == InitDoor /\ [][NextDoor]_vars

--------------------------------------------------------------------------
(* Claims on the CollisionMap.                                             *)

mirror(r) ==
    CASE r = "CheckSpherePoly" -> "CheckPolySphere"
      [] r = "CheckPolySphere" -> "CheckSpherePoly"
      [] r = "CheckBBoxPoly"   -> "CheckPolyBBox"
      [] r = "CheckPolyBBox"   -> "CheckBBoxPoly"
      [] r = "CheckBBoxSphere" -> "CheckSphereBBox"
      [] r = "CheckSphereBBox" -> "CheckBBoxSphere"
      [] OTHER -> r

SymmetricAt(m, a, b) == m[a][b] = mirror(m[b][a])

\* C1: in the table built by CollisionMap::default(), every pair (A,B) of
\* classes has result_map[A][B] = mirror(result_map[B][A]).
C1_DefaultSymmetric ==
    map_phase = "default" =>
        \A a \in ObjectClass, b \in ObjectClass : SymmetricAt(result_map, a, b)

C1_Witness ==
    /\ map_phase = "default"
    /\ result_map[Wall][Robot] = "CheckPolySphere"
    /\ result_map[Robot][Wall] = "CheckSpherePoly"

\* C2 (as stated): after any sequence of enable/disable calls with any class
\* arguments, type1 = type2 included, every pair is mirrored.
C2_SymmetricAlways ==
    \A a \in ObjectClass, b \in ObjectClass : SymmetricAt(result_map, a, b)

\* C2 (amended): after any sequence of enable/disable calls every pair of two
\* different classes is mirrored, and the diagonal entries are mirrored too as
\* long as no directional enable_* was called with type1 = type2.
C2_SymmetricOffDiagonal ==
    /\ \A a \in ObjectClass, b \in ObjectClass :
          a # b => SymmetricAt(result_map, a, b)
    /\ ~diag_directional =>
          \A a \in ObjectClass : SymmetricAt(result_map, a, a)

C2_Witness ==
    /\ map_phase = "calls"
    /\ diag_directional
    /\ result_map[Wall][Robot] = "CheckBBoxSphere"
    /\ result_map[Robot][Wall] = "CheckSphereBBox"
    /\ result_map[Powerup][Powerup] = "CheckPolySphere"

\* The pairs some call of default() names, in either order.
NamedPairs ==
    {<<DefaultCalls[k][2], DefaultCalls[k][3]>> : k \in 1..Len(DefaultCalls)}
    \cup {<<DefaultCalls[k][3], DefaultCalls[k][2]>> : k \in 1..Len(DefaultCalls)}

\* C3: after construction the table matches the enabled-pair list: Wall
\* against Robot, Weapon and Player is poly-sphere (sphere-poly the other way
\* round), Player-Player and Robot-Robot are sphere-sphere, every class against
\* Room is a room test, Powerup-Powerup is Nothing, and every pair that no
\* call names is Nothing.
C3_DefaultMatchesList ==
    map_phase = "default" =>
        /\ \A x \in {Robot, Weapon, Player} :
              /\ result_map[Wall][x] = "CheckPolySphere"
              /\ result_map[x][Wall] = "CheckSpherePoly"
        /\ result_map[Player][Player] = "CheckSphereSphere"
        /\ result_map[Robot][Robot] = "CheckSphereSphere"
        /\ \A c \in ObjectClass :
              /\ result_map[c][Room] \in {"CheckSphereRoom", "CheckBBoxRoom"}
              /\ result_map[Room][c] \in {"CheckSphereRoom", "CheckBBoxRoom"}
        /\ result_map[Powerup][Powerup] = "Nothing"
        /\ \A a \in ObjectClass, b \in ObjectClass :
              <<a, b>> \notin NamedPairs => result_map[a][b] = "Nothing"

C3_Witness ==
    /\ map_phase = "default"
    /\ result_map[Waypoint][Room] = "CheckSphereRoom"
    /\ result_map[Powerup][Powerup] = "Nothing"
    /\ result_map[Shard][Debris] = "Nothing"
    /\ result_map[Weapon][Wall] = "CheckSpherePoly"

--------------------------------------------------------------------------
(* Claims on quick_dist_facelist.                                          *)

NoDuplicates(s) == \A i, j \in 1..Len(s) : i # j => s[i] # s[j]

Range(s) == {s[k] : k \in 1..Len(s)}

\* The faces of a room that the search is specified to collect: listed in a
\* sub-region that is entered, and overlapping the query volume themselves.
PassingFaces(room, min_xyz, max_xyz) ==
    LET m_sector == MSector(room.bounding_box.range, min_xyz, max_xyz)
    IN  {f \in 0..(Len(room.faces) - 1) :
            /\ room_manual_AABB(At(room.faces, f), min_xyz, max_xyz)
            /\ \E i \in 0..(Len(room.bounding_box.regions) - 1) :
                  /\ RegionEntered(At(room.bounding_box.regions, i), m_sector, min_xyz, max_xyz)
                  /\ f \in Range(At(room.bounding_box.regions, i).faces)}

\* The same, counted once per sub-region entry (a face listed in two entered
\* sub-regions is met twice).
PassingEntries(room, min_xyz, max_xyz) ==
    LET m_sector == MSector(room.bounding_box.range, min_xyz, max_xyz)
    IN  {e \in (0..(Len(room.bounding_box.regions) - 1)) \X (0..(Len(room.faces) - 1)) :
            /\ RegionEntered(At(room.bounding_box.regions, e[1]), m_sector, min_xyz, max_xyz)
            /\ e[2] \in Range(At(room.bounding_box.regions, e[1]).faces)
            /\ room_manual_AABB(At(room.faces, e[2]), min_xyz, max_xyz)}

PassedInCall ==
    UNION {{<<r, f>> : f \in PassingFaces(rooms[r], QueryMin(position, rad), QueryMax(position, rad))} :
           r \in Range(processed)}

EntriesInCall ==
    UNION {{<<r, e>> : e \in PassingEntries(rooms[r], QueryMin(position, rad), QueryMax(position, rad))} :
           r \in Range(processed)}

\* C4: whatever the portal graph (cycles included), no room is enqueued or
\* processed more than once, and the call terminates: every step of an
\* entered call either ends the call or advances head by one, and head
\* never exceeds the length of next_rooms, which never exceeds the number
\* of rooms.
C4_VisitedOnceAndTerminates ==
    /\ [](/\ NoDuplicates(next_rooms)
          /\ NoDuplicates(processed)
          /\ head <= Len(next_rooms)
          /\ Len(next_rooms) <= Cardinality(RoomIds))
    /\ [][q_status = "loop" => (q_status' # "loop" \/ head' = head + 1)]_vars

\* The triangle R0-R1-R2 with R0-R2: a search from R0 has processed all
\* three rooms, R2 once, and is about to return.
C4_Witness ==
    /\ AtReturn
    /\ initial_room = 0
    /\ At(rooms[0].faces, 0).portal = Some(To(2))
    /\ At(rooms[0].faces, 1).portal = Some(To(1))
    /\ At(rooms[1].faces, 1).portal = Some(To(2))
    /\ next_rooms = <<0, 1, 2>>
    /\ processed = <<0, 1, 2>>

\* C5: the traversal starts at initial_room and processes the rooms in the
\* order they were enqueued: the rooms processed so far are the first
\* entries of next_rooms, whatever the order of room_list.
C5_ProcessedInQueueOrder ==
    q_status \in {"loop", "panicked"} =>
        /\ Len(processed) <= Len(next_rooms)
        /\ processed = SubSeq(next_rooms, 1, Len(processed))

\* C6: when a call without output list returns, the faces it marked TOUCHED
\* are exactly the faces of the processed rooms that passed the sector,
\* sub-region and face AABB tests.
C6_TouchedIffPassed ==
    (AtReturn /\ ~list_supplied) => touched_by_call = PassedInCall

\* C7: with an output list, the passing faces are written to slots
\* 0..count-1 as (face index, room id) records, the records are distinct,
\* and the count returned is the number of records written, at most the
\* capacity.
C7_RecordsAppended ==
    (AtReturn /\ list_supplied) =>
        /\ num_faces = Len(appended)
        /\ num_faces <= Len(quick_face_list)
        /\ \A k \in 1..Len(appended) :
              /\ k <= Len(quick_face_list)
              /\ quick_face_list[k] =
                    Some([face_index |-> appended[k][1], room_index |-> appended[k][2]])
        /\ NoDuplicates(SubSeq(quick_face_list, 1, num_faces))

\* C8: when more faces pass than the supplied list can hold, the traversal
\* still goes on after the list is full: every passing face met in the
\* processed rooms is pushed for TOUCHED marking.
C8_FullListKeepsTouching ==
    (AtReturn /\ list_supplied /\ Cardinality(EntriesInCall) > Len(quick_face_list)) =>
        touch_count = Cardinality(EntriesInCall)

\* C9: a step of quick_dist_facelist changes nothing of a room except that
\* it may add TOUCHED to the flags of its faces; TOUCHED is never removed.
C9_OnlyTouchedAdded ==
    [][\A r \in DOMAIN rooms :
          /\ DOMAIN rooms'[r].faces = DOMAIN rooms[r].faces
          /\ \A f \in DOMAIN rooms[r].faces :
                /\ rooms[r].faces[f].flags \subseteq rooms'[r].faces[f].flags
                /\ rooms'[r].faces[f].flags \ rooms[r].faces[f].flags \subseteq {"TOUCHED"}
          /\ rooms'[r] =
                [rooms[r] EXCEPT !.faces =
                    [f \in DOMAIN rooms[r].faces |->
                        [rooms[r].faces[f] EXCEPT !.flags = rooms'[r].faces[f].flags]]]
      ]_vars

\* After a call has returned, a face that carried LIGHTMAP carries TOUCHED
\* as well, and another face of the level is still untouched.
C9_Witness ==
    /\ q_status = "idle"
    /\ At(rooms[0].faces, 0).flags = {"LIGHTMAP", "TOUCHED"}
    /\ At(rooms[0].faces, 2).flags = {"DESTROYED"}
    /\ At(rooms[2].faces, 1).flags = {"SCORCHED"}

--------------------------------------------------------------------------
(* Claims on process_cells.                                                *)

\* The window the walk is specified to cover, for half-size k.
RowLo(cell, k) == max(0, (cell \div TERRAIN_WIDTH) - k)
RowHi(cell, k) == min(TERRAIN_DEPTH - 1, (cell \div TERRAIN_WIDTH) + k)
ColLo(cell, k) == max(0, (cell % TERRAIN_WIDTH) - k)
ColHi(cell, k) == min(TERRAIN_WIDTH - 1, (cell % TERRAIN_WIDTH) + k)

\* The walk is at row-major position n (counted from 0) of the window of
\* half-size k around cell, and the cell it hands to the visitor is that
\* position's index row * TERRAIN_WIDTH + col.
AtWindowPosition(cell, k, n) ==
    LET w == ColHi(cell, k) - ColLo(cell, k) + 1
        row == RowLo(cell, k) + (n \div w)
        col == ColLo(cell, k) + (n % w)
    IN  /\ row <= RowHi(cell, k)
        /\ current_node = row * TERRAIN_WIDTH + col

WindowSize(cell, k) ==
    (RowHi(cell, k) - RowLo(cell, k) + 1) * (ColHi(cell, k) - ColLo(cell, k) + 1)

\* The walk of an always-true visitor is on the window: each call gets the
\* next cell of the window in row-major order, and the walk ends after the
\* last one.
OnWindow ==
    /\ c_status = "visit" => AtWindowPosition(initial_cell, check_x, visits)
    /\ c_status = "done" => visits = WindowSize(initial_cell, check_x)

\* C10: with a visitor that always answers true, process_cells calls it
\* exactly once for each cell of the clamped window, in row-major order,
\* and for no other index, for every initial cell and every radius.
C10_VisitsWindowRowMajor ==
    (c_status \in {"visit", "done", "panicked"} /\ stop_at = 0) =>
        /\ c_status # "panicked"
        /\ OnWindow

\* The same for the radii whose quotient by TERRAIN_SIZE does not saturate
\* the cast to usize.
C10_FiniteRadius ==
    (c_status \in {"visit", "done", "panicked"} /\ stop_at = 0 /\ cell_rad.finite) =>
        /\ c_status # "panicked"
        /\ OnWindow

\* ceil(n / d) of two non-negative whole numbers.
CeilDiv(n, d) == (n + d - 1) \div d

\* C11: the half-size of the window process_cells walks is
\* ceil(rad / TERRAIN_SIZE) + 1 cells in each direction, for every radius
\* >= 0, a multiple of the cell size or not (stated here for the radii whose
\* quotient does not saturate the cast).
C11_HalfSizeIsCeilPlusOne ==
    (c_status \in {"visit", "done"} /\ cell_rad.finite) =>
        check_x = CeilDiv(cell_rad.v, TERRAIN_SIZE) + 1

\* The visitor of the search in progress has answered false.
VisitorSaidFalse == stop_at > 0 /\ visits >= stop_at

\* C12: once the visitor has answered false it is not called again during
\* that search, neither for the rest of the row nor for a later row.
C12_NoCallAfterFalse ==
    [][(c_status \in {"visit", "done"} /\ VisitorSaidFalse) => visits' <= visits]_vars

--------------------------------------------------------------------------
(* Claims on the narrow-phase functions.                                   *)

RZero == RInt(0)

\* The point q of fractions lies on the segment from a to b.
OnSegment(q, a, b) ==
    LET w == RVSub(q, RVec(a))
        l == RVec(VSub(b, a))
        c == RCross(w, l)
    IN  /\ c.x = RZero /\ c.y = RZero /\ c.z = RZero
        /\ RLe(RZero, RDot(w, l))
        /\ RLe(RDot(w, l), RDot(l, l))

\* The arguments of C13: radius 1 from (0,0,-5) to (0,0,5) against the
\* plane through the origin with normal (0,0,-1).
C13_Args ==
    [plane_point |-> Vec(0, 0, 0), plane_normal |-> Vec(0, 0, 0 - 1),
     p0 |-> Vec(0, 0, 0 - 5), p1 |-> Vec(0, 0, 5), rad |-> 1]

\* C13: for these arguments find_plane_line_intersection returns true with
\* the sphere-centre point (0,0,-1), at travel distance 4 from p0, and the
\* collision point (0,0,0) on the plane.
C13_PlaneHitAtDistance4 ==
    (n_call = "find_plane_line_intersection" /\ n_args = C13_Args) =>
        /\ n_out.hit
        /\ n_out.intp = Some(RVec(Vec(0, 0, 0 - 1)))
        /\ n_out.colp = Some(RVec(Vec(0, 0, 0)))
        /\ dot(VSub(Vec(0, 0, 0 - 1), n_args.p0), VSub(Vec(0, 0, 0 - 1), n_args.p0)) = 4 * 4

C13_Witness ==
    /\ n_call = "find_plane_line_intersection"
    /\ n_args = C13_Args
    /\ n_out.hit

\* p0 strictly in front of the plane and p1 strictly behind it.
CrossesPlane(a) ==
    /\ dot(a.plane_normal, VSub(a.p0, a.plane_point)) > 0
    /\ dot(a.plane_normal, VSub(a.p1, a.plane_point)) < 0

\* C14: for every plane, radius >= 0 and segment that starts strictly in
\* front of the plane and ends strictly behind it,
\* find_plane_line_intersection returns true and the intersection point lies
\* on the segment, at a distance from p0 within [0, |p1 - p0|].
C14_CrossingSegmentHits ==
    (/\ n_call = "find_plane_line_intersection"
     /\ n_args.rad >= 0
     /\ CrossesPlane(n_args)) =>
        /\ n_out.hit
        /\ OnSegment(unwrap(n_out.intp), n_args.p0, n_args.p1)

C14_Witness ==
    /\ n_call = "find_plane_line_intersection"
    /\ CrossesPlane(n_args)
    /\ n_args.plane_normal = Vec(1, 2, 0 - 2)
    /\ n_args.rad = 1
    /\ n_out.hit
    /\ n_out.intp # Some(RVec(n_args.p0))
    /\ unwrap(n_out.intp).z.d > 1

\* The point, projected onto the two axes orthogonal to the dominant normal
\* component, lies outside the edge from vertex e to vertex (e + 1) mod nv.
OutsideEdge(point, face_normal, nv, vector_list, e) ==
    LET i == AxisI(face_normal)
        j == AxisJ(face_normal)
        v0 == At(vector_list, e)
        v1 == At(vector_list, (e + 1) % nv)
    IN  (as_slice(point, i) - as_slice(v0, i)) * (as_slice(v1, j) - as_slice(v0, j))
        - (as_slice(point, j) - as_slice(v0, j)) * (as_slice(v1, i) - as_slice(v0, i)) < 0

\* The polygon is convex and wound consistently with its normal: no vertex
\* is outside an edge.
ConvexWound(face_normal, nv, vector_list) ==
    \A e \in 0..(nv - 1), k \in 0..(nv - 1) :
        ~OutsideEdge(At(vector_list, k), face_normal, nv, vector_list, e)

InPlane(point, face_normal, vector_list) ==
    dot(face_normal, VSub(point, At(vector_list, 0))) = 0

BitSet(mask, e) == (mask \div (2 ^ e)) % 2 = 1

\* C15: for a convex, consistently wound polygon and a point in its plane,
\* bit i of the mask check_point_to_face returns is set exactly when the
\* projected point lies outside edge i, and the mask is 0 exactly when the
\* point is inside the polygon, wherever the polygon lies.
C15_MaskMarksOutsideEdges ==
    (/\ n_call = "check_point_to_face"
     /\ ConvexWound(n_args.face_normal, n_args.nv, n_args.vector_list)
     /\ InPlane(n_args.colp, n_args.face_normal, n_args.vector_list)) =>
        /\ \A e \in 0..(n_args.nv - 1) :
              BitSet(n_out.edgemask, e)
                  <=> OutsideEdge(n_args.colp, n_args.face_normal, n_args.nv,
                                  n_args.vector_list, e)
        /\ n_out.edgemask = 0
              <=> \A e \in 0..(n_args.nv - 1) :
                      ~OutsideEdge(n_args.colp, n_args.face_normal, n_args.nv,
                                   n_args.vector_list, e)

\* The motion moves away from the sphere centre, and p0 lies inside the
\* sphere.
MovingAway(a) == dot(VSub(a.p1, a.p0), VSub(a.sphere_pos, a.p0)) <= 0
StartsInside(a) ==
    dot(VSub(a.sphere_pos, a.p0), VSub(a.sphere_pos, a.p0)) < a.sphere_rad * a.sphere_rad

\* C18: check_vector_to_sphere returns a miss whenever the motion moves away
\* from the sphere centre; when p0 already lies inside the sphere (and the
\* motion does not move away) it returns a hit if and only if
\* init_collisions is set.
C18_AwayMissesInsideNeedsFlag ==
    n_call = "check_vector_to_sphere" =>
        /\ MovingAway(n_args) => ~n_out.hit
        /\ (StartsInside(n_args) /\ ~MovingAway(n_args)) =>
              (n_out.hit <=> n_args.init_collisions)

\* C20: a query with p0 == p1 and radius 0 hits nothing unless the point
\* lies on a face: find_plane_line_intersection, and so check_line_to_face,
\* returns false for every plane and face the point is not on,
\* check_vector_to_sphere returns false for every sphere, and
\* find_intersection returns the hit type None (here in a world with
\* nothing to hit).
C20_ZeroMotionHitsNothing ==
    /\ (/\ n_call = "find_plane_line_intersection"
        /\ n_args.p0 = n_args.p1
        /\ n_args.rad = 0
        /\ dot(n_args.plane_normal, VSub(n_args.p0, n_args.plane_point)) # 0)
           => ~n_out.hit
    /\ (/\ n_call = "check_line_to_face"
        /\ n_args.p0 = n_args.p1
        /\ n_args.rad = 0
        /\ dot(n_args.face_normal, VSub(n_args.p0, At(n_args.vector_list, 0))) # 0)
           => (n_out.status = "returned" /\ ~n_out.hit)
    /\ (/\ n_call = "check_vector_to_sphere"
        /\ n_args.p0 = n_args.p1)
           => ~n_out.hit
    /\ (/\ n_call = "find_intersection"
        /\ n_args.query.p0 = n_args.query.p1
        /\ n_args.query.rad = 0)
           => (n_out.status = "returned" /\ n_out.hit_type = Some("None"))

\* p lies inside the cylinder of radius r around the edge from ep0 to ep1:
\* between the end points and closer than r to the axis.
InsideCylinder(p, r, ep0, ep1) ==
    LET e == VSub(ep1, ep0)
        w == VSub(p, ep0)
        t == dot(w, e)
    IN  /\ 0 <= t /\ t <= dot(e, e)
        /\ dot(w, w) * dot(e, e) - t * t < r * r * dot(e, e)

\* C16: when the start point p0 lies inside the edge's cylinder,
\* check_vector_to_cylinder returns an immediate hit with col_dist = 0 and
\* intp = p0 (and the outward normal); otherwise it goes on to the swept
\* test.
C16_InsideStartHitsAtOnce ==
    (/\ n_call = "check_vector_to_cylinder"
     /\ n_args.rad >= 0
     /\ InsideCylinder(n_args.p0, n_args.rad, n_args.ep0, n_args.ep1)) =>
        /\ n_out.status = "returned"
        /\ n_out.hit
        /\ n_out.col_dist = Some(0)
        /\ n_out.intp = Some(n_args.p0)

\* The segment from p0 to p1 starts outside the sphere of radius r around c
\* and comes closer than r to c.
EndCapHit(p0, p1, r, c) ==
    LET l == VSub(p1, p0)
        w == VSub(c, p0)
        t == dot(w, l)
    IN  /\ dot(w, w) >= r * r
        /\ t > 0
        /\ IF t >= dot(l, l)
           THEN dot(VSub(c, p1), VSub(c, p1)) < r * r
           ELSE dot(w, w) * dot(l, l) - t * t < r * r * dot(l, l)

\* The motion runs at right angles to the edge, beyond one of its ends: it
\* starts outside the cylinder and meets the infinite cylinder only beyond
\* the edge's finite extent.
BeyondTheEdge(p0, p1, ep0, ep1) ==
    LET e == VSub(ep1, ep0)
        s == dot(VSub(p0, ep0), e)
    IN  /\ dot(VSub(p1, p0), e) = 0
        /\ (s < 0 \/ s > dot(e, e))

\* C17: for a motion that starts outside the edge's cylinder and crosses the
\* infinite cylinder only beyond the edge's extent, check_vector_to_cylinder
\* still runs both end-cap sphere tests and returns a hit when an end cap is
\* hit.
C17_EndCapStillHit ==
    (/\ n_call = "check_vector_to_cylinder"
     /\ n_args.rad >= 0
     /\ BeyondTheEdge(n_args.p0, n_args.p1, n_args.ep0, n_args.ep1)
     /\ \/ EndCapHit(n_args.p0, n_args.p1, n_args.rad, n_args.ep0)
        \/ EndCapHit(n_args.p0, n_args.p1, n_args.rad, n_args.ep1)) =>
        /\ n_out.status = "returned"
        /\ n_out.hit

\* The closed ranges of the boxes a and b overlap on all three axes.
Overlap(a, b) ==
    /\ a.min.x <= b.max.x /\ b.min.x <= a.max.x
    /\ a.min.y <= b.max.y /\ b.min.y <= a.max.y
    /\ a.min.z <= b.max.z /\ b.min.z <= a.max.z

\* C19: each of the five AABB predicates returns true whenever the two
\* boxes' closed ranges overlap on all three axes, and false only when the
\* boxes are separated on at least one axis.
C19_AABBNeverRejectsOverlap ==
    n_call \in AABBPredicates => (n_out.result <=> Overlap(n_args.a, n_args.b))

\* C21: for a moving object and a still object whose class pair has the
\* CollisionMap entry Nothing (Powerup against Powerup in the default map),
\* the object test never reports a hit, however the spheres overlap or cross
\* along the motion.
C21_NothingPairNeverHits ==
    (/\ n_call = "check_vector_to_object"
     /\ is_some(n_args.this_obj)
     /\ CollisionMapDefault[unwrap(n_args.this_obj).class][n_args.still_object.class]
            = "Nothing") =>
        ~n_out.hit

\* C22: find_intersection runs the query through its phases and returns
\* the valid hit of smallest distance (the first found among equals); when
\* no candidate qualifies, as in a world with nothing to hit, it returns the
\* hit type None.
C22_ReturnsClosestOrNone ==
    n_call = "find_intersection" =>
        /\ n_out.status = "returned"
        /\ n_out.hit_type = Some("None")

--------------------------------------------------------------------------
(* Claims on OrderedNode and NodePath.                                     *)

\* C23: a BinaryHeap<OrderedNode> is a min-heap on cost: nodes of distinct
\* costs pushed in any order are popped in strictly increasing cost order,
\* each of them once, and then the heap answers None.
C23_PopsInIncreasingCost ==
    n_call = "test_ordered_nodes" =>
        LET pops == n_out.pops
            n == Len(n_args.pushes)
        IN  /\ Len(pops) = n + 1
            /\ pops[n + 1] = None
            /\ \A k \in 1..n : is_some(pops[k])
            /\ {unwrap(pops[k]) : k \in 1..n} = {n_args.pushes[k] : k \in 1..n}
            /\ \A k \in 1..(n - 1) : unwrap(pops[k]).cost < unwrap(pops[k + 1]).cost

C23_Witness ==
    /\ n_call = "test_ordered_nodes"
    /\ Len(n_args.pushes) = 3
    /\ n_args.pushes[1].cost = 3 /\ n_args.pushes[2].cost = 2 /\ n_args.pushes[3].cost = 4
    /\ unwrap(n_out.pops[1]).cost = 2
    /\ unwrap(n_out.pops[3]).cost = 4
    /\ n_out.pops[4] = None

\* The nodes reached from the set seen along edges of node_list.
RECURSIVE ReachedFrom(_, _)
ReachedFrom(node_list, seen) ==
    LET more == seen \cup UNION {{At(At(node_list, n), k).end_index :
                                       k \in 0..(Len(At(node_list, n)) - 1)} : n \in seen}
    IN  IF more = seen THEN seen ELSE ReachedFrom(node_list, more)

AllEndInStartRoom(node_list) ==
    \A n \in 1..Len(node_list) : \A k \in 1..Len(node_list[n]) :
        node_list[n][k].end_room = "start_room"

JoinedByEdge(node_list, a, b) ==
    \E k \in 1..Len(At(node_list, a)) : At(node_list, a)[k].end_index = b

\* C30: on a node list whose edges all end in start_room and have positive
\* cost, find_path(i, j) returns, returns true exactly when j is reachable
\* from i along edges, and on true leaves nodes as a path from i to j.
C30_TrueIffReachable ==
    (/\ n_call = "find_path"
     /\ AllEndInStartRoom(n_args.node_list)) =>
        /\ n_out.status = "returned"
        /\ n_out.found <=> (n_args.j \in ReachedFrom(n_args.node_list, {n_args.i}))
        /\ n_out.found =>
            /\ Len(n_out.nodes) >= 1
            /\ n_out.nodes[1] = n_args.i
            /\ n_out.nodes[Len(n_out.nodes)] = n_args.j
            /\ \A k \in 1..(Len(n_out.nodes) - 1) :
                JoinedByEdge(n_args.node_list, n_out.nodes[k], n_out.nodes[k + 1])

--------------------------------------------------------------------------
(* Claims on the cell list, the sphere-to-face test and the movement box.  *)

\* C24: quick_dist_cell_list never indexes quick_cell_list at or past its
\* length and returns a count that is at most the length, for every list
\* length, zero included: once the list is full no further cell is
\* collected.
C24_CellListSaturates ==
    n_call = "quick_dist_cell_list" =>
        /\ n_out.panic # "quick_cell_list"
        /\ n_out.status = "returned" => n_out.num_cells <= n_args.len

\* Edge number edgenum of the face has its bit set in the mask.
Masked(edgemask, edgenum) == (edgemask \div (2 ^ edgenum)) % 2 = 1

\* C25: check_sphere_to_face reports the face, with the face normal as wall
\* normal, when the edge mask is 0; otherwise no hit with radius 0;
\* otherwise the masked edges are tested as cylinders and the closest edge
\* hit is reported: a start inside the cylinder of a masked edge, which is
\* an edge hit at travel distance 0, makes the call report a hit at
\* distance 0.
C25_FaceThenClosestEdge ==
    n_call = "check_sphere_to_face" =>
        /\ n_out.status = "returned"
        /\ n_out.edgemask = 0 =>
            n_out.hit /\ n_out.wall_norm = Some(n_args.face_normal)
        /\ (n_out.edgemask # 0 /\ n_args.rad = 0) => ~n_out.hit
        /\ (/\ n_out.edgemask # 0
            /\ n_args.rad > 0
            /\ \E edgenum \in 0..(n_args.nv - 1) :
                /\ Masked(n_out.edgemask, edgenum)
                /\ InsideCylinder(n_args.p0, n_args.rad,
                                  At(n_args.vector_list, edgenum),
                                  At(n_args.vector_list, (edgenum + 1) % n_args.nv))) =>
            n_out.hit /\ n_out.col_dist_squared = Some(RInt(0))

\* The box from lo to hi is not empty and holds the point p widened by pad
\* on every side.
Holds(lo, hi, p, pad) ==
    /\ lo.x <= p.x - pad /\ p.x + pad <= hi.x
    /\ lo.y <= p.y - pad /\ p.y + pad <= hi.y
    /\ lo.z <= p.z - pad /\ p.z + pad <= hi.z

\* C26: after compute_movement_AABB, min_xyz <= max_xyz on every axis and
\* the box holds query.p0 and the hit point, widened by rad on every side
\* when the radius is not zero and the query has no object of origin, for a
\* motion in any direction.
C26_BoxHoldsTheMotion ==
    (/\ n_call = "compute_movement_AABB"
     /\ is_some(n_args.hit_data)) =>
        LET lo == unwrap(n_out.min_xyz)
            hi == unwrap(n_out.max_xyz)
            pad == IF ~n_args.zero_rad /\ ~is_some(n_args.this_obj) THEN n_args.rad ELSE 0
        IN  /\ n_out.status = "returned"
            /\ lo.x <= hi.x /\ lo.y <= hi.y /\ lo.z <= hi.z
            /\ Holds(lo, hi, n_args.p0, pad)
            /\ Holds(lo, hi, unwrap(n_args.hit_data), pad)

--------------------------------------------------------------------------
(* Claims on the terrain.                                                  *)

\* The entries of the min/max tables whose block holds a cell of the
\* neighbourhood {x - 1, x} x {z - 1, z} of the grid.
NeighbourhoodEntries(x, z) ==
    {<<i, MinMaxOffset(i, t, k)>> :
        i \in 0..6, t \in {z - 1, z} \cap (0..(TERRAIN_DEPTH - 1)),
        k \in {x - 1, x} \cap (0..(TERRAIN_WIDTH - 1))}

\* C27: deform_point(x, z, d) completes for every cell of the grid, the
\* cells of the x = 0 and z = 0 borders included; it sets the byte-height of
\* that cell to old + d clamped to 0..255 and y accordingly, changes no
\* other cell's height, and changes a min/max entry only when its block
\* holds a cell of the neighbourhood {x - 1, x} x {z - 1, z}.
C27_DeformsOneCell ==
    (/\ n_call = "deform_point"
     /\ n_args.x < TERRAIN_WIDTH
     /\ n_args.z < TERRAIN_DEPTH) =>
        /\ n_out.status = "returned"
        /\ n_out.y_scalar = ClampHeight(n_args.y_scalar + n_args.change_height)
        /\ n_out.y = Rat(n_out.y_scalar * 350, 255)
        /\ n_out.heights_changed \subseteq {n_args.z * TERRAIN_WIDTH + n_args.x}
        /\ (n_out.max_changed \cup n_out.min_changed)
               \subseteq NeighbourhoodEntries(n_args.x, n_args.z)

--------------------------------------------------------------------------
(* Claims on the doorways.                                                 *)

\* C28: whatever activate, set_position, stop and do_frame_doorways steps
\* were applied to a doorway, do_frame_doorways never meets it active and
\* Stopped: the panic 'stopped doorstate is not allowed' is not reached.
C28_NeverActiveAndStopped ==
    (\A k \in 1..Len(history) :
        history[k] \in {"activate", "set_position", "stop", "do_frame_doorways"}) =>
        frame_status # "stopped doorstate is not allowed"

\* The doorway has AUTO, is not blasted, has its door and its room assigned
\* and no object linked to its door, and was activated and then only updated
\* by frames.
AutoRun ==
    /\ frame_status # "off"
    /\ "AUTO" \in doorway_flags
    /\ ~is_blasted
    /\ is_some(door)
    /\ is_some(assigned_room)
    /\ ~door_obj_linked
    /\ Len(history) >= 1
    /\ history[1] = "activate"
    /\ \A k \in 2..Len(history) : history[k] = "do_frame_doorways"

\* C29: an activated AUTO doorway closes again by itself under repeated
\* frames of positive frame time: its state goes OpeningAuto, Waiting,
\* Closing, Stopped and it reaches Stopped at position 0. In a finite run:
\* every frame of such a doorway returns, and once a frame has run the
\* doorway has left position 0 or OpeningAuto on its way to Stopped.
C29_AutoDoorClosesByItself ==
    AutoRun =>
        /\ frame_status = "running"
        /\ doorway_state \in {"OpeningAuto", "Waiting", "Closing", "Stopped"}
        /\ doorway_state = "Stopped" => doorway_position = RInt(0)

=============================================================================
